---- MODULE Spec2Model ----
(***************************************************************************)
(* Model of the KIMaster game client: the protocol state machine of        *)
(* GameClient.run, the session object Pit, and the game loop Arena.play    *)
(* over the tic-tac-toe rule engine.                                       *)
(*                                                                         *)
(* Scheduling: one asyncio event loop.  A coroutine runs without           *)
(* interruption from one `await` to the next, so every action below is the *)
(* code between two suspension points of one coroutine, and the value of   *)
(* pc (Arena.play) or loop (GameClient.run) names the await at which the   *)
(* coroutine is suspended.  The sends of GameClient.run are taken to        *)
(* complete without handing control to another task, so run is suspended   *)
(* only where it waits for a message, for the stopped play, or for the      *)
(* Arena to undo.                                                          *)
(***************************************************************************)
EXTENDS Integers, Sequences, FiniteSets, TLC

VARIABLES
    \* ---- GameClient ----
    state,            \* GameClient.state: the protocol state (GAMESTATE)
    loop,             \* position of GameClient.run
    resp,             \* response code GameClient.run sent last for the last message
    handler,          \* the `match command_key` case entered for the last message
    initResult,       \* Response of Pit.init_game for the last message
    seat,             \* p_pos of the command run is suspended in, "none" otherwise
    undoNum,          \* num of the undo_move run is suspended in, 0 otherwise
    winner,           \* "result" of the response sent last, 0 when it has none
    \* ---- Pit ----
    pit,              \* GameClient.pit: "none" or "set"
    arenaSet,         \* Pit.arena is not None
    task,             \* Pit.arena_task: "none", "active", "done", "failed", "cancelled"
    taskKind,         \* what the task runs: "game" (play) or "eval" (playGames)
    orphans,          \* tasks replaced in Pit.arena_task while not finished
    \* ---- Arena ----
    running,          \* Arena.running
    history,          \* Arena.history: <<[board, player, it], ...>>
    blunder_history,  \* Arena.blunder_history: <<[board, player, it, action], ...>>
    cur_player,       \* Arena.cur_player
    time_index_p1,    \* Arena.time_index_p1
    time_index_p2,    \* Arena.time_index_p2
    kinds,            \* which play function each seat holds: "play" or "playAI"
    \* ---- Arena.play (the locals of the coroutine) ----
    pc,               \* the await Arena.play is suspended at
    board,            \* local board
    player,           \* local cur_player
    it,               \* local it
    ai,               \* local ai
    action,           \* local action: what p() returned; cleared once no line reads it
    ret,              \* the dict play returned
    \* ---- what Arena.play sent ----
    arenaOut,         \* last message of play: [code, to]
    turnNotes,        \* number of P_KIM / P_PLAYER notifications sent by this play
    boardCasts,       \* number of broadcast_board calls of this play
    gameOvers,        \* number of P_GAMEOVER messages sent by this play
    \* ---- bookkeeping of the run, read by the properties only ----
    cells,            \* what the player sources answer a poll with: the actions
                      \* (moves) after k accepted ones, the plies with AI requests (ai)
    aiAsked,          \* number of AI-move requests the player sources made in this run
    stopped,          \* stop() was called while this play was running
    accepted,         \* number of actions getNextState accepted in this play
    undos,            \* number of undo_move commands that reached the Pit in this session
    \* ---- FastAPIServer and the LobbyManager of its socket server ----
    connections,      \* FastAPIServer.active_connections
    lobbies,          \* LobbyManager.lobbies: key -> the connections on the seats
    lobbyResp,        \* the response FastAPIServer sent last: [code, msg]
    launched,         \* the key the command answered last started a session
                      \* process with, NoLaunch when it started none
    \* ---- MCTS (Tools/mcts.py), the search the AI player asks for its action ----
    root,             \* the position getActionProb was called with: [board, player]
    Ps,               \* the positions the tree holds (expanded on a first visit)
    Nsa,              \* visit counts of the edges: <<position, action>> -> count
    node,             \* the position the running simulation is at
    path,             \* the edges the running simulation went along
    sims,             \* simulations of this call that are finished
    searchPc          \* "none", "idle" (between simulations), "search", "done"

clientVars == <<state, loop, resp, handler, initResult, seat, undoNum, winner>>
pitVars    == <<pit, arenaSet, task, taskKind, orphans>>
arenaVars  == <<running, history, blunder_history, cur_player, time_index_p1,
                time_index_p2, kinds>>
playVars   == <<pc, board, player, it, ai, action, ret>>
outVars    == <<arenaOut, turnNotes, boardCasts, gameOvers>>
bookVars   == <<cells, aiAsked, stopped, accepted, undos>>
lobbyVars  == <<connections, lobbies, lobbyResp, launched>>
searchVars == <<root, Ps, Nsa, node, path, sims, searchPc>>
vars == <<clientVars, pitVars, arenaVars, playVars, outVars, bookVars, lobbyVars,
          searchVars>>

----------------------------------------------------------------------------
(* Bounds and program constants                                            *)

\* TicTacToeGame.__init__(self, n=3)
N == 3

\* getGameEnded returns 1, -1, 0 or 1e-4; the model counts in units of 1e-4.
Scale == 10000
DrawValue == 1

\* The actions the player sources submit when Arena.play runs on its own: any of
\* the five cells 0 .. 4 in the first five plies, then the cells 5, 7, 6, 8 in
\* this order, so that a game can end with a win of either player or with a
\* full board. After eight accepted actions the player may also submit the
\* action N * N, which getNextState takes as a pass; the last cell is then
\* left to the other player.
ArenaCells ==
    [moves |-> [k \in 0 .. N * N + 1 |->
                   CASE k < 5 -> {0, 1, 2, 3, 4}
                     [] k = 5 -> {5}
                     [] k = 6 -> {7}
                     [] k = 7 -> {6}
                     [] k = 8 -> {8, N * N}
                     [] k = 9 -> {8}
                     [] OTHER -> {}],
     ai |-> 0 .. N * N]
\* The actions the player sources submit under the command loop: player 1 fills
\* the top row, offering an occupied cell once, player 2 answers below it; an
\* AI move is requested in the turn of the occupied cell only.
ClientCells ==
    [moves |-> [k \in 0 .. N * N + 1 |->
                   CASE k = 0 -> {0}
                     [] k = 1 -> {3}
                     [] k = 2 -> {0, 1}
                     [] k = 3 -> {4}
                     [] k = 4 -> {2}
                     [] OTHER -> {}],
     ai |-> {2}]

\* How many times the player sources answer a poll with an AI-move request.
MaxAiRequests == 1

\* How many undo_move commands with a usable num the client sends in a session.
MaxUndos == 1

Seats == {"p1", "p2"}
NoAction == [kind |-> "none", val |-> 0]
AiRequest == [kind |-> "bool", val |-> 1]
Move(a) == [kind |-> "move", val |-> a]
NoRet == [result |-> 0, turn |-> -1]
NoOut == [code |-> "none", to |-> "none", result |-> 0, turn |-> -1]

\* The websocket connections of the front ends
Clients == {"c1", "c2", "c3", "c4"}
NoClient == "none"

\* How many lobbies exist at a time; create_lobby() has a fresh key for each
MaxLobbies == 1
LobbyKeys == 1 .. MaxLobbies
\* a key no lobby has
UnknownKey == 0
\* the command started no session process; the message of the command had no "key"
NoLaunch == -1
NoKey == -2

\* line 102: if pos not in ["p1", "p2", "sp"]
SeatPos == {"p1", "p2", "sp"}

EmptyLobby == [s \in SeatPos |-> NoClient]
NoLobbies == [k \in {} |-> EmptyLobby]
NoResp == [code |-> "none", msg |-> "none"]

\* MCTS.__init__: empty tables; no call of getActionProb yet
NoPosition == [board |-> <<>>, player |-> 0]
NoVisits == [e \in {} |-> 0]
NoSearch ==
    /\ root = NoPosition
    /\ Ps = {}
    /\ Nsa = NoVisits
    /\ node = NoPosition
    /\ path = <<>>
    /\ sims = 0
    /\ searchPc = "none"

\* FastAPIServer.__init__: no connection; SocketServer(): no lobby
NoFrontEnd ==
    /\ connections = {}
    /\ lobbies = NoLobbies
    /\ lobbyResp = NoResp
    /\ launched = NoLaunch

----------------------------------------------------------------------------
(* The rule engine: Games/tictactoe/TicTacToeGame.py                       *)

Idx == 0 .. (N - 1)
Lines ==
    {{<<r, c>> : c \in Idx} : r \in Idx}
    \cup {{<<r, c>> : r \in Idx} : c \in Idx}
    \cup {{<<i, i>> : i \in Idx}, {<<i, N - 1 - i>> : i \in Idx}}

getInitBoard == [r \in Idx |-> [c \in Idx |-> 0]]

\* Board.is_win(player): a row, column or diagonal wholly of player's marks
is_win(b, p) == \E l \in Lines : \A rc \in l : b[rc[1]][rc[2]] = p

\* Board.has_legal_moves(): an empty cell remains
has_legal_moves(b) == \E r \in Idx, c \in Idx : b[r][c] = 0

\* Board.execute_move raises when the move is not on an empty cell of the board
MoveRejected(b, a) ==
    \/ a < 0
    \/ a >= N * N
    \/ b[a \div N][a % N] # 0

\* A getNextState that sets the mark on the array it was given (b.pieces = board)
getNextStateInPlace(b, p, a) ==
    IF a = N * N
    THEN [board |-> b, player |-> -p, arg |-> b]
    ELSE [board |-> [b EXCEPT ![a \div N][a % N] = p], player |-> -p,
          arg |-> [b EXCEPT ![a \div N][a % N] = p]]

\* getNextState: the pass action N*N flips the player; otherwise the mark is set
\* on a copy of the board (b.pieces = np.copy(board)).  Defined where
\* getNextState does not raise.  board and player are the pair returned, arg is
\* the array passed in as it is after the call.
getNextState(b, p, a) ==
    IF a = N * N
    THEN [board |-> b, player |-> -p, arg |-> b]
    ELSE [board |-> [b EXCEPT ![a \div N][a % N] = p], player |-> -p, arg |-> b]

getNextStateRaises(b, p, a) == a # N * N /\ MoveRejected(b, a)

\* A getGameEnded that reports a full board without winner as not ended
getGameEndedZeroDraw(b, p) ==
    IF is_win(b, p) THEN Scale
    ELSE IF is_win(b, -p) THEN -Scale
    ELSE 0

\* lines 60-73: 1 when player has won, -1 when the other player has, 0 while a
\* legal move remains, 1e-4 for a draw; in units of 1 / Scale
getGameEnded(b, p) ==
    IF is_win(b, p) THEN Scale
    ELSE IF is_win(b, -p) THEN -Scale
    ELSE IF has_legal_moves(b) THEN 0
    ELSE DrawValue

\* Python's round() of x / Scale: to the nearest integer, halves to the even one
Abs(x) == IF x < 0 THEN -x ELSE x
RoundScaled(x) ==
    LET q == Abs(x) \div Scale
        r == Abs(x) % Scale
        m == IF 2 * r > Scale THEN q + 1
             ELSE IF 2 * r < Scale THEN q
             ELSE IF q % 2 = 0 THEN q ELSE q + 1
    IN  IF x < 0 THEN -m ELSE m

\* {"result": round(cur_player * getGameEnded(board, cur_player)), "turn": it}
PlayResult(b, p, i) ==
    [result |-> RoundScaled(p * getGameEnded(b, p)), turn |-> i]

----------------------------------------------------------------------------
(* Arena: GameClient/arena.py                                              *)

\* line 62: to = "p1" if cur_player == 1 else "p2"
SeatOf(p) == IF p = 1 THEN "p1" ELSE "p2"

\* players = [self.player2, None, self.player1]; p = players[cur_player + 1]
KindOf(p) == kinds[SeatOf(p)]

\* lines 56-59: P_KIM when the player function is Player.playAI, else P_PLAYER
TurnCode(kind) == IF kind = "playAI" THEN "P_KIM" ELSE "P_PLAYER"

Msg(code, to) == [code |-> code, to |-> to, result |-> 0, turn |-> -1]

\* line 49: while self.running and self.game.getGameEnded(board, cur_player) == 0
LoopCond(run, b, p) == run /\ getGameEnded(b, p) = 0

\* lines 51 and 92: self.history.append((board, cur_player, it))
HistoryAppend(h, b, p, i) == Append(h, [board |-> b, player |-> p, it |-> i])

\* A blunder log that also records the moves of search-assisted turns
BlunderAppendAll(bh, isAi, b, p, i, a) ==
    Append(bh, [board |-> b, player |-> p, it |-> i, action |-> a])

\* lines 80-81: if not ai: self.blunder_history.append((board, cur_player, it, action))
BlunderAppend(bh, isAi, b, p, i, a) ==
    IF ~isAi
    THEN Append(bh, [board |-> b, player |-> p, it |-> i, action |-> a])
    ELSE bh

\* A turn end that leaves the ply index where it is
ItKept(run, i) == i

\* lines 88-89: if self.running: it += 1
ItAfterTurn(run, i) == IF run THEN i + 1 ELSE i

\* lines 97-100: the indices follow the history, running is cleared, and play
\* suspends in game_client.update()
PlayTail ==
    /\ time_index_p1' = Len(history')
    /\ time_index_p2' = Len(history')
    /\ running' = FALSE
    /\ pc' = "update"

\* A loop exit that would report the game over whether or not play still runs
OuterHeadAlwaysFinal(b, p, i) ==
    IF LoopCond(running, b, p)
    THEN /\ pc' = "sleep_outer"
         /\ UNCHANGED <<history, running, time_index_p1, time_index_p2, boardCasts>>
    ELSE /\ history' = HistoryAppend(history, b, p, i)
         /\ boardCasts' = boardCasts + 1
         /\ pc' = "bcast_final"
         /\ UNCHANGED <<running, time_index_p1, time_index_p2>>

\* line 49 evaluated with the locals (b, p, i) and, when the loop is left, lines
\* 91-100 up to the next await
OuterHead(b, p, i) ==
    IF LoopCond(running, b, p)
    THEN /\ pc' = "sleep_outer"
         /\ UNCHANGED <<history, running, time_index_p1, time_index_p2, boardCasts>>
    ELSE IF running
    THEN /\ history' = HistoryAppend(history, b, p, i)
         /\ boardCasts' = boardCasts + 1
         /\ pc' = "bcast_final"
         /\ UNCHANGED <<running, time_index_p1, time_index_p2>>
    ELSE /\ UNCHANGED <<history, boardCasts>>
         /\ PlayTail

\* line 64: while self.running; when the inner loop is left, lines 88-89 and the
\* head of the outer loop
InnerHead ==
    IF running
    THEN /\ pc' = "sleep_inner"
         /\ UNCHANGED <<it, history, running, time_index_p1, time_index_p2, boardCasts>>
    ELSE /\ it' = ItAfterTurn(running, it)
         /\ OuterHead(board, player, it')

\* The event loop runs tasks as long as run_until_complete(GameClient.run()) has
\* not returned or raised (StartClient.py line 15)
LoopAlive == loop \notin {"closed", "crashed"}

PlayActive == task = "active" /\ taskKind = "game" /\ LoopAlive

\* lines 42-49: play starts: running is set, the board defaults to the initial one
PlayStart ==
    /\ PlayActive /\ pc = "start"
    /\ board' = getInitBoard
    /\ IF getGameEnded(board', player) = 0
       THEN pc' = "sleep_outer" /\ history' = history /\ boardCasts' = boardCasts
       ELSE /\ history' = HistoryAppend(history, board', player, it)
            /\ boardCasts' = boardCasts + 1
            /\ pc' = "bcast_final"
    /\ running' = TRUE
    /\ UNCHANGED <<clientVars, pitVars, blunder_history, cur_player, time_index_p1,
                   time_index_p2, kinds, player, it, ai, action, ret, arenaOut,
                   turnNotes, gameOvers, bookVars, lobbyVars, searchVars>>

\* lines 51-59, resumed from the sleep of line 50: the turn is recorded and announced
PlayTurn ==
    /\ PlayActive /\ pc = "sleep_outer"
    /\ history' = HistoryAppend(history, board, player, it)
    /\ cur_player' = player
    /\ arenaOut' = Msg(TurnCode(KindOf(player)), "all")
    /\ turnNotes' = turnNotes + 1
    /\ pc' = "send_turn"
    /\ UNCHANGED <<clientVars, pitVars, running, blunder_history, time_index_p1,
                   time_index_p2, kinds, board, player, it, ai, action, ret,
                   boardCasts, gameOvers, bookVars, lobbyVars, searchVars>>

\* A turn that goes on to the poll without the broadcast of the board
PlayBroadcastSkipped ==
    /\ PlayActive /\ pc = "send_turn"
    /\ pc' = "bcast"
    /\ UNCHANGED <<clientVars, pitVars, arenaVars, board, player, it, ai, action, ret,
                   outVars, bookVars, lobbyVars, searchVars>>

\* line 60: the board is broadcast
PlayBroadcast ==
    /\ PlayActive /\ pc = "send_turn"
    /\ boardCasts' = boardCasts + 1
    /\ pc' = "bcast"
    /\ UNCHANGED <<clientVars, pitVars, arenaVars, board, player, it, ai, action, ret,
                   arenaOut, turnNotes, gameOvers, bookVars, lobbyVars, searchVars>>

\* An inner loop entered with the ai flag of the turn before
PlayEnterInnerKeepsAi ==
    /\ PlayActive /\ pc = "bcast"
    /\ ai' = ai
    /\ InnerHead
    /\ UNCHANGED <<clientVars, pitVars, blunder_history, cur_player, kinds, board,
                   player, action, ret, arenaOut, turnNotes, gameOvers, bookVars, lobbyVars, searchVars>>

\* lines 62-64: ai is cleared for the turn and the inner loop is entered
PlayEnterInner ==
    /\ PlayActive /\ pc = "bcast"
    /\ ai' = FALSE
    /\ InnerHead
    /\ UNCHANGED <<clientVars, pitVars, blunder_history, cur_player, kinds, board,
                   player, action, ret, arenaOut, turnNotes, gameOvers, bookVars, lobbyVars, searchVars>>

\* lines 66-68: p() has no action yet
PlayPollNone ==
    /\ PlayActive /\ pc = "sleep_inner"
    /\ action' = NoAction
    /\ InnerHead
    /\ UNCHANGED <<clientVars, pitVars, blunder_history, cur_player, kinds, board,
                   player, ai, ret, arenaOut, turnNotes, gameOvers, bookVars, lobbyVars, searchVars>>

\* lines 66-74: p() returned a bool: the AI move is requested from the server
PlayPollAi ==
    /\ PlayActive /\ pc = "sleep_inner"
    /\ accepted \in cells.ai /\ aiAsked < MaxAiRequests
    /\ aiAsked' = aiAsked + 1
    /\ action' = AiRequest
    /\ arenaOut' = Msg("ai_move", SeatOf(player))
    /\ pc' = "send_ai"
    /\ UNCHANGED <<clientVars, pitVars, arenaVars, board, player, it, ai, ret,
                   turnNotes, boardCasts, gameOvers, cells, lobbyVars, searchVars, stopped, accepted, undos>>

\* lines 75-76, resumed from send_cmd: the turn is search-assisted from now on
PlayAfterAi ==
    /\ PlayActive /\ pc = "send_ai"
    /\ ai' = TRUE
    /\ action' = NoAction
    /\ InnerHead
    /\ UNCHANGED <<clientVars, pitVars, blunder_history, cur_player, kinds, board,
                   player, ret, arenaOut, turnNotes, gameOvers, bookVars, lobbyVars, searchVars>>

\* lines 66, 77-79: p() returned an action and getNextState accepted it
PlayMoveAccepted ==
    /\ PlayActive /\ pc = "sleep_inner"
    /\ \E a \in cells.moves[accepted] :
          /\ ~getNextStateRaises(board, player, a)
          /\ action' = Move(a)
          /\ board' = getNextState(board, player, a).board
          /\ player' = getNextState(board, player, a).player
    /\ arenaOut' = Msg("P_VALIDMOVE", SeatOf(player))
    /\ accepted' = accepted + 1
    /\ pc' = "send_valid"
    /\ UNCHANGED <<clientVars, pitVars, arenaVars, it, ai, ret, turnNotes,
                   boardCasts, gameOvers, cells, lobbyVars, searchVars, aiAsked, stopped, undos>>

\* lines 66, 77-78, 83-87: getNextState raised ValueError in a turn without AI request
PlayMoveRejected ==
    /\ PlayActive /\ pc = "sleep_inner" /\ ~ai
    /\ \E a \in cells.moves[accepted] :
          /\ getNextStateRaises(board, player, a)
          /\ action' = Move(a)
    /\ arenaOut' = Msg("P_INVALIDMOVE", SeatOf(player))
    /\ pc' = "send_invalid"
    /\ UNCHANGED <<clientVars, pitVars, arenaVars, board, player, it, ai, ret,
                   turnNotes, boardCasts, gameOvers, bookVars, lobbyVars, searchVars>>

\* A rejection in a search-assisted turn handled as the one of a player is
PlayMoveFatalRepolls ==
    /\ PlayActive /\ pc = "sleep_inner" /\ ai
    /\ \E a \in cells.moves[accepted] :
          /\ getNextStateRaises(board, player, a)
          /\ action' = Move(a)
    /\ arenaOut' = Msg("P_INVALIDMOVE", SeatOf(player))
    /\ pc' = "send_invalid"
    /\ UNCHANGED <<clientVars, pitVars, arenaVars, board, player, it, ai, ret,
                   turnNotes, boardCasts, gameOvers, bookVars, lobbyVars, searchVars>>

\* lines 83-85: getNextState raised ValueError in a search-assisted turn: play raises
PlayMoveFatal ==
    /\ PlayActive /\ pc = "sleep_inner" /\ ai
    /\ \E a \in cells.moves[accepted] :
          /\ getNextStateRaises(board, player, a)
          /\ action' = Move(a)
    /\ pc' = "raised"
    /\ task' = "failed"
    /\ UNCHANGED <<clientVars, pit, arenaSet, taskKind, orphans, arenaVars, board,
                   player, it, ai, ret, outVars, bookVars, lobbyVars, searchVars>>

\* lines 80-82, 88-89, resumed from the P_VALIDMOVE send: the blunder log, the ply
\* index, and the head of the outer loop
PlayAfterValid ==
    /\ PlayActive /\ pc = "send_valid"
    /\ blunder_history' =
          BlunderAppend(blunder_history, ai, board, player, it, action.val)
    /\ it' = ItAfterTurn(running, it)
    /\ OuterHead(board, player, it')
    /\ action' = NoAction
    /\ UNCHANGED <<clientVars, pitVars, cur_player, kinds, board, player, ai, ret,
                   arenaOut, turnNotes, gameOvers, bookVars, lobbyVars, searchVars>>

\* A rejection that would leave the inner loop as an accepted action does
PlayAfterInvalidBreaks ==
    /\ PlayActive /\ pc = "send_invalid"
    /\ action' = NoAction
    /\ it' = it + 1
    /\ OuterHead(board, player, it')
    /\ UNCHANGED <<clientVars, pitVars, blunder_history, cur_player, kinds, board,
                   player, ai, ret, arenaOut, turnNotes, gameOvers, bookVars, lobbyVars, searchVars>>

\* lines 86-87, resumed from the P_INVALIDMOVE send: the same turn is polled again
PlayAfterInvalid ==
    /\ PlayActive /\ pc = "send_invalid"
    /\ action' = NoAction
    /\ InnerHead
    /\ UNCHANGED <<clientVars, pitVars, blunder_history, cur_player, kinds, board,
                   player, ai, ret, arenaOut, turnNotes, gameOvers, bookVars, lobbyVars, searchVars>>

\* lines 94-96, resumed from the final broadcast: P_GAMEOVER with result and turn
PlayGameOver ==
    /\ PlayActive /\ pc = "bcast_final"
    /\ arenaOut' = [code |-> "P_GAMEOVER", to |-> "all",
                    result |-> PlayResult(board, player, it).result, turn |-> it]
    /\ gameOvers' = gameOvers + 1
    /\ pc' = "send_gameover"
    /\ UNCHANGED <<clientVars, pitVars, arenaVars, board, player, it, ai, action, ret,
                   turnNotes, boardCasts, bookVars, lobbyVars, searchVars>>

\* lines 97-100, resumed from the P_GAMEOVER send
PlayFinish ==
    /\ PlayActive /\ pc = "send_gameover"
    /\ history' = history
    /\ PlayTail
    /\ UNCHANGED <<clientVars, pitVars, blunder_history, cur_player, kinds, board,
                   player, it, ai, action, ret, outVars, bookVars, lobbyVars, searchVars>>

\* line 101, resumed from update(): play returns and the task is done
PlayReturn ==
    /\ PlayActive /\ pc = "update"
    /\ ret' = PlayResult(board, player, it)
    /\ pc' = "returned"
    /\ task' = "done"
    /\ UNCHANGED <<clientVars, pit, arenaSet, taskKind, orphans, arenaVars, board,
                   player, it, ai, action, outVars, bookVars, lobbyVars, searchVars>>

PlayStep ==
    \/ PlayStart \/ PlayTurn \/ PlayBroadcast \/ PlayEnterInner
    \/ PlayPollNone \/ PlayPollAi \/ PlayAfterAi
    \/ PlayMoveAccepted \/ PlayMoveRejected \/ PlayMoveFatal
    \/ PlayAfterValid \/ PlayAfterInvalid
    \/ PlayGameOver \/ PlayFinish \/ PlayReturn

\* lines 38-39: stop().  The bookkeeping records where a running play was stopped.
ArenaStop ==
    /\ running' = FALSE
    /\ stopped' = (stopped \/ (task = "active" /\ taskKind = "game" /\ running))

\* The state a fresh Arena and a fresh task for play(board=None, cur_player=1, it=0)
\* are in: Arena.__init__ (lines 11-26) and the arguments of play (line 41)
FreshArena ==
    /\ running = FALSE
    /\ history = <<>>
    /\ blunder_history = <<>>
    /\ cur_player = 1
    /\ time_index_p1 = 0
    /\ time_index_p2 = 0
    /\ pc = "start"
    /\ board = getInitBoard
    /\ player = 1
    /\ it = 0
    /\ ai = FALSE
    /\ action = NoAction
    /\ ret = NoRet
    /\ arenaOut = NoOut
    /\ turnNotes = 0
    /\ boardCasts = 0
    /\ gameOvers = 0
    /\ stopped = FALSE
    /\ accepted = 0
    /\ undos = 0

----------------------------------------------------------------------------
(* Arena.play on its own: the environment holds the Arena, starts play as a *)
(* task, supplies what the player functions return, and calls stop().       *)

SeatKinds == {[p1 |-> "play", p2 |-> "play"], [p1 |-> "play", p2 |-> "playAI"]}

\* The seats of a session the command loop starts: a player against the AI
SessionKinds == [p1 |-> "play", p2 |-> "playAI"]

InitArena ==
    /\ state = "RUNNING" /\ loop = "recv" /\ resp = "none" /\ handler = "none"
    /\ initResult = "none" /\ seat = "none" /\ undoNum = 0 /\ winner = 0
    /\ pit = "set" /\ arenaSet = TRUE /\ task = "active" /\ taskKind = "game"
    /\ orphans = 0
    /\ kinds \in SeatKinds
    /\ cells = ArenaCells
    /\ aiAsked = 0
    /\ FreshArena
    /\ NoFrontEnd
    /\ NoSearch

\* the holder of the Arena calls stop() while the task exists
EnvStop ==
    /\ task = "active" /\ running
    /\ ArenaStop
    /\ UNCHANGED <<clientVars, pitVars, history, blunder_history, cur_player,
                   time_index_p1, time_index_p2, kinds, playVars, outVars, cells, lobbyVars, searchVars,
                   aiAsked, accepted, undos>>

NextArena == PlayStep \/ EnvStop

SpecArena == InitArena /\ [][NextArena]_vars

\* Task.cancel() takes effect at the await the coroutine is suspended at:
\* CancelledError is raised there and nothing of play runs after it
TaskCancel ==
    /\ task = "active" /\ taskKind = "game" /\ pc # "returned"
    /\ task' = "cancelled"
    /\ pc' = "cancelled"
    /\ UNCHANGED <<clientVars, pit, arenaSet, taskKind, orphans, arenaVars, board,
                   player, it, ai, action, ret, outVars, bookVars, lobbyVars, searchVars>>

NextCancel == PlayStep \/ EnvStop \/ TaskCancel

SpecCancel == InitArena /\ [][NextCancel]_vars

----------------------------------------------------------------------------
(* Pit: GameClient/pit.py                                                  *)

\* Task.done(): finished, raised or cancelled
TaskDone == task \in {"done", "failed", "cancelled"}

\* Pit.init_game lines 46-93: the Response it returns before an Arena exists, or
\* "raise" when init_nn raises out of it, or "start" when it goes on to line 95.
\* A config whose mode matches none of the cases of lines 76-87 is an error
\* (lines 88-90); load_checkpoint of a missing file raises through the
\* try of line 73, which catches AttributeError only.
InitGameOutcome(cfg) ==
    IF cfg = "badmode" THEN "ERROR"
    ELSE IF cfg = "nockpt" THEN "raise"
    ELSE "start"

\* Pit.start_game lines 33-43: play for one game, playGames for more
StartKind(num_games) == IF num_games = 1 THEN "game" ELSE "eval"

\* Pit.__init__ lines 20-21 and Arena.__init__: the Arena and the task of the
\* Pit before are out of reach; what the variables hold is that of a fresh Arena
ClearArena ==
    /\ running' = FALSE
    /\ history' = <<>>
    /\ blunder_history' = <<>>
    /\ cur_player' = 1
    /\ time_index_p1' = 0
    /\ time_index_p2' = 0
    /\ pc' = "start"
    /\ board' = getInitBoard
    /\ player' = 1
    /\ it' = 0
    /\ ai' = FALSE
    /\ action' = NoAction
    /\ ret' = NoRet
    /\ arenaOut' = NoOut
    /\ turnNotes' = 0
    /\ boardCasts' = 0
    /\ gameOvers' = 0
    /\ stopped' = FALSE
    /\ accepted' = 0
    /\ undos' = 0
    /\ aiAsked' = 0
    /\ cells' = cells
    /\ UNCHANGED <<lobbyVars, searchVars>>

\* Pit.init_game lines 95-98 and Pit.start_game lines 34-43 with the defaults
\* board=None, cur_player=1, it=0: a new Arena and a new task for it
StartSession(num_games) ==
    /\ arenaSet' = TRUE
    /\ task' = "active"
    /\ taskKind' = StartKind(num_games)
    /\ orphans' = IF task = "active" THEN orphans + 1 ELSE orphans
    /\ kinds' = SessionKinds
    /\ ClearArena

\* Arena.playGames is not part of the sources at hand: the evaluation task runs
\* until its games are played or stop() has been called
EvalStart ==
    /\ task = "active" /\ taskKind = "eval" /\ LoopAlive /\ pc = "start"
    /\ running' = TRUE
    /\ pc' = "eval"
    /\ UNCHANGED <<clientVars, pitVars, history, blunder_history, cur_player,
                   time_index_p1, time_index_p2, kinds, board, player, it, ai,
                   action, ret, outVars, bookVars, lobbyVars, searchVars>>

EvalFinish ==
    /\ task = "active" /\ taskKind = "eval" /\ LoopAlive /\ pc = "eval"
    /\ running' = FALSE
    /\ pc' = "returned"
    /\ task' = "done"
    /\ UNCHANGED <<clientVars, pit, arenaSet, taskKind, orphans, history,
                   blunder_history, cur_player, time_index_p1, time_index_p2, kinds,
                   board, player, it, ai, action, ret, outVars, bookVars, lobbyVars, searchVars>>

\* Pit.start_game lines 23-43, called as init_game line 98 calls it (one game,
\* board=None, cur_player=1, it=0) by code that runs on the event loop while
\* the task is suspended at an await.  start_game is synchronous: between its
\* call and its return nothing else runs on the thread, so a task whose
\* cancellation was requested ("cancelling") gets the CancelledError only when
\* the event loop resumes it, after start_game has returned.
\* lines 25-29 and 33-43: with a task that is done the new task is created;
\* with one that is not, the wait loop is entered
StartGameCall ==
    /\ loop = "recv" /\ pit = "set" /\ arenaSet /\ task # "none"
    /\ IF TaskDone
       THEN /\ StartSession(1)
            /\ UNCHANGED <<clientVars, pit>>
       ELSE /\ loop' = "start_game_loop"
            /\ UNCHANGED <<state, resp, handler, initResult, seat, undoNum, winner,
                           pitVars, arenaVars, playVars, outVars, bookVars,
                           lobbyVars, searchVars>>

\* line 30: self.arena_task.cancel() requests the cancellation; lines 31-32:
\* the thread sleeps in time.sleep(0.5)
StartGameCancel ==
    /\ loop = "start_game_loop"
    /\ task' = IF TaskDone THEN task ELSE "cancelling"
    /\ loop' = "start_game_sleep"
    /\ UNCHANGED <<state, resp, handler, initResult, seat, undoNum, winner,
                   pit, arenaSet, taskKind, orphans, arenaVars, playVars, outVars,
                   bookVars, lobbyVars, searchVars>>

\* line 29 after the sleep: while not self.arena_task.done(); lines 33-43 when
\* the loop is left
StartGameWake ==
    /\ loop = "start_game_sleep"
    /\ IF TaskDone
       THEN /\ StartSession(1)
            /\ loop' = "recv"
            /\ UNCHANGED <<state, resp, handler, initResult, seat, undoNum, winner,
                           pit>>
       ELSE /\ loop' = "start_game_loop"
            /\ UNCHANGED <<state, resp, handler, initResult, seat, undoNum, winner,
                           pitVars, arenaVars, playVars, outVars, bookVars,
                           lobbyVars, searchVars>>

InitStartGame ==
    /\ state = "RUNNING" /\ loop = "recv" /\ resp = "none" /\ handler = "none"
    /\ initResult = "none" /\ seat = "none" /\ undoNum = 0 /\ winner = 0
    /\ pit = "set" /\ arenaSet = TRUE /\ task = "active" /\ taskKind = "game"
    /\ orphans = 0
    /\ kinds = SessionKinds
    /\ cells = ClientCells
    /\ aiAsked = 0
    /\ FreshArena
    /\ NoFrontEnd
    /\ NoSearch

\* play steps only while the thread is not inside start_game
PlayStepOnLoop == loop = "recv" /\ PlayStep

NextStartGame == PlayStepOnLoop \/ StartGameCall \/ StartGameCancel \/ StartGameWake

\* the thread that is inside start_game goes on running it, and the event loop
\* resumes a task that is ready
SpecStartGame ==
    /\ InitStartGame
    /\ [][NextStartGame]_vars
    /\ WF_vars(StartGameCancel)
    /\ WF_vars(StartGameWake)
    /\ WF_vars(PlayStepOnLoop)

----------------------------------------------------------------------------
(* GameClient.run: GameClient/game_client.py                               *)

Keys == {"create", "valid_moves", "make_move", "undo_move", "surrender", "quit",
         "new_game", "blunder", "timeline", "step", "unstep", "games", "evaluate",
         "stop_evaluate", "other"}

\* The "num" entry of a message: absent, a text that is no number ("abc"), an
\* integer, a number with a fraction (n + 0.5), or a JSON array
NoNum == [kind |-> "none", val |-> 0]
TextNum == [kind |-> "text", val |-> 0]
IntNum(n) == [kind |-> "int", val |-> n]
FracNum(n) == [kind |-> "frac", val |-> n]
ListNum == [kind |-> "list", val |-> 0]

\* int(num) of lines 197, 256 and 296: an integer stays, a number with a
\* fraction is cut to its integer part, a text that is no number raises
\* ValueError, and anything int() does not take raises TypeError
PyInt(num) ==
    CASE num.kind = "int" -> [out |-> "int", val |-> num.val]
      [] num.kind = "frac" -> [out |-> "int", val |-> num.val]
      [] num.kind = "text" -> [out |-> "ValueError", val |-> 0]
      [] OTHER -> [out |-> "TypeError", val |-> 0]

\* The "move" entry of a message:
\*   "none"     absent
\*   "int"      an integer                       4
\*   "digits"   the text of an integer           "4"
\*   "word"     a text that is no integer        "abc", "(1,2"
\*   "tuple"    the text of an integer tuple     "(1,2)"
\*   "names"    names between parentheses        "(a,b)"
\*   "literal"  another literal in parentheses   "(1.5)", "('a','b')"
\*   "broken"   parentheses around no expression "(1,,2)", "(1 2)"
\*   "array"    neither a text nor an integer    [1, 2], 1.5
MoveArgs ==
    {"none", "int", "digits", "word", "tuple", "names", "literal", "broken", "array"}

\* parse_input lines 367-382: what it returns ("None" or a "value"), or the
\* exception that leaves it: ast.literal_eval raises ValueError for a node that
\* is no literal and SyntaxError for a text that is no expression, and only
\* ValueError is caught; startswith of a value that is no text raises
\* AttributeError
parse_input(mv) ==
    CASE mv = "none" -> "None"
      [] mv = "int" -> "value"
      [] mv = "array" -> "AttributeError"
      [] mv \in {"tuple", "literal"} -> "value"
      [] mv = "names" -> "None"
      [] mv = "broken" -> "SyntaxError"
      [] mv = "digits" -> "value"
      [] OTHER -> "None"

\* what a message may carry
CfgArgs == {"ok", "badargs", "unavailable", "badmode", "nockpt"}
EvalNums ==
    {NoNum, TextNum, ListNum, FracNum(2), IntNum(-1), IntNum(0), IntNum(1),
     IntNum(2), IntNum(50), IntNum(100), IntNum(101)}
UndoNums == {NoNum, TextNum, ListNum, FracNum(1), IntNum(0), IntNum(1), IntNum(9)}
TimelineNums ==
    {NoNum, TextNum, ListNum, FracNum(0), IntNum(-1), IntNum(0), IntNum(1), IntNum(9)}
PosArgs == {"ok", "bad"}

Message(k, pos, cfg, num, arg) ==
    [key |-> k, pos |-> pos, cfg |-> cfg, num |-> num, arg |-> arg]

Messages ==
    {Message("create", "p1", cfg, NoNum, "none") : cfg \in CfgArgs}
    \cup {Message("evaluate", "p1", "ok", num, "none") : num \in EvalNums}
    \cup {Message("evaluate", "p1", cfg, IntNum(2), "none") :
              cfg \in {"badargs", "badmode", "nockpt"}}
    \cup {Message("valid_moves", "p1", "ok", NoNum, a) : a \in PosArgs}
    \cup {Message("make_move", "p1", "ok", NoNum, a) : a \in MoveArgs}
    \cup {Message("undo_move", "p1", "ok", num, "none") : num \in UndoNums}
    \cup {Message("timeline", "p1", "ok", num, "none") : num \in TimelineNums}
    \cup {Message("surrender", pos, "ok", NoNum, "none") : pos \in Seats}
    \cup {Message(k, "p1", "ok", NoNum, "none") :
              k \in {"step", "unstep", "quit", "new_game", "blunder", "games",
                     "stop_evaluate", "other"}}

\* the messages of each command_key
MessagesOf == [k \in Keys |-> {m \in Messages : m.key = k}]

\* A gate whose RUNNING case would let quit through as well
AdmittedWithQuit(st) ==
    CASE st = "WAITING" -> {"create", "evaluate", "quit", "games"}
      [] st = "RUNNING" ->
            {"valid_moves", "make_move", "undo_move", "surrender", "blunder", "quit"}
      [] st = "FINISHED" ->
            {"new_game", "timeline", "step", "unstep", "blunder", "quit", "create"}
      [] OTHER -> Keys

\* lines 102-121: the command keys each case of `match self.state` lets through.
\* There is no case for GAMESTATE.EVALUATE: every key goes through.
Admitted(st) ==
    CASE st = "WAITING" -> {"create", "evaluate", "quit", "games"}
      [] st = "RUNNING" ->
            {"valid_moves", "make_move", "undo_move", "surrender", "blunder"}
      [] st = "FINISHED" ->
            {"new_game", "timeline", "step", "unstep", "blunder", "quit", "create"}
      [] OTHER -> Keys

\* lines 105, 111, 119: the response of each case to a key it does not let through
ConflictCode(st) ==
    CASE st = "WAITING" -> "P_NOINIT"
      [] st = "RUNNING" -> "P_STILLRUNNING"
      [] st = "FINISHED" -> "P_GAMEOVER"
      [] OTHER -> "none"

\* create and evaluate without the guard on the task at hand
NeverStillRunning == FALSE

\* lines 126-128 (create) and 284-286 (evaluate): a task exists and is not done
StillRunning == pit = "set" /\ task # "none" /\ ~TaskDone

\* what a handler leaves alone when it only answers
Answer(code, hd) ==
    /\ handler' = hd
    /\ resp' = code
    /\ initResult' = "none"
    /\ winner' = 0
    /\ UNCHANGED <<playVars, state, loop, seat, undoNum, pitVars, arenaVars,
                   outVars, bookVars, lobbyVars, searchVars>>

\* an exception leaves run(): run_until_complete raises and the loop is gone
Raise(hd) ==
    /\ loop' = "crashed"
    /\ resp' = "none"
    /\ handler' = hd
    /\ initResult' = "none"
    /\ winner' = 0
    /\ UNCHANGED <<state, seat, undoNum, pitVars, arenaVars, playVars,
                   outVars, bookVars, lobbyVars, searchVars>>

Receiving(m, k) == loop = "recv" /\ m.key = k /\ k \in Admitted(state)

\* lines 104-106, 110-113, 118-121: the key is not let through
RecvRejected ==
    /\ loop = "recv" /\ \E k \in Keys : k \notin Admitted(state)
    /\ Answer(ConflictCode(state), "none")

\* lines 89-93: the data received is no JSON: NONVALIDJSON is sent and the next
\* message is awaited
RecvNoJson ==
    /\ loop = "recv"
    /\ Answer("NONVALIDJSON", "none")

\* lines 94-98 and 334: the connection is closed: the loop is left by break
RecvDisconnect ==
    /\ loop = "recv"
    /\ loop' = "closed"
    /\ resp' = "none"
    /\ handler' = "none"
    /\ initResult' = "none"
    /\ winner' = 0
    /\ UNCHANGED <<state, seat, undoNum, pitVars, arenaVars, playVars,
                   outVars, bookVars, lobbyVars, searchVars>>

\* lines 145-153 and 315-323: self.pit = Pit(...), init_game, the response, the
\* new protocol state
InitAndRun(m, num_games, hd, newState) ==
    /\ handler' = hd
    /\ pit' = "set"
    /\ winner' = 0
    /\ UNCHANGED <<seat, undoNum>>
    /\ CASE InitGameOutcome(m.cfg) = "ERROR" ->
              /\ initResult' = "ERROR"
              /\ resp' = "ERROR"
              /\ state' = newState
              /\ arenaSet' = FALSE
              /\ task' = "none"
              /\ orphans' = IF task = "active" THEN orphans + 1 ELSE orphans
              /\ ClearArena
              /\ UNCHANGED <<loop, taskKind, kinds>>
         [] InitGameOutcome(m.cfg) = "raise" ->
              /\ initResult' = "none"
              /\ resp' = "none"
              /\ loop' = "crashed"
              /\ arenaSet' = FALSE
              /\ task' = "none"
              /\ orphans' = IF task = "active" THEN orphans + 1 ELSE orphans
              /\ ClearArena
              /\ UNCHANGED <<state, taskKind, kinds>>
         [] OTHER ->
              /\ initResult' = "SUCCESS"
              /\ resp' = "SUCCESS"
              /\ state' = newState
              /\ StartSession(num_games)
              /\ UNCHANGED loop

\* lines 125-153
RecvCreate(m) ==
    /\ Receiving(m, "create")
    /\ IF StillRunning THEN Answer("P_STILLRUNNING", "create")
       ELSE IF m.cfg = "badargs" THEN Answer("P_ARGS", "create")
       ELSE IF m.cfg = "unavailable" THEN Answer("P_GAMENOTAWAILABLE", "create")
       ELSE InitAndRun(m, 1, "create", "RUNNING")

\* lines 283-323
RecvEvaluate(m) ==
    /\ Receiving(m, "evaluate")
    /\ IF StillRunning THEN Answer("P_STILLRUNNING", "evaluate")
       ELSE IF m.num.kind = "none" THEN Answer("P_NOEVALUATION", "evaluate")
       ELSE IF PyInt(m.num).out = "ValueError"
            THEN Answer("P_INVALIDEVALUATION", "evaluate")
       ELSE IF PyInt(m.num).out = "TypeError" THEN Raise("evaluate")
       ELSE IF PyInt(m.num).val = 1 \/ PyInt(m.num).val > 100
            THEN Answer("P_INVALIDEVALUATION", "evaluate")
       ELSE IF m.cfg = "badargs" THEN Answer("P_ARGS", "evaluate")
       ELSE InitAndRun(m, PyInt(m.num).val, "evaluate", "EVALUATE")

\* lines 226-238: init_game(num_games=1, game_config=self.pit.game_config) on the
\* Pit at hand, whose config passed the checks of create
RecvNewGame(m) ==
    /\ Receiving(m, "new_game")
    /\ IF pit = "none" \/ task = "none" THEN Raise("new_game")
       ELSE IF ~TaskDone THEN Answer("P_STILLRUNNING", "new_game")
       ELSE /\ handler' = "new_game"
            /\ initResult' = "SUCCESS"
            /\ resp' = "SUCCESS"
            /\ state' = "RUNNING"
            /\ StartSession(1)
            /\ winner' = 0
            /\ UNCHANGED <<loop, seat, undoNum, pit>>

\* lines 155-176: a pos that is no integer or is negative is answered before the
\* Arena is asked
RecvValidMoves(m) ==
    /\ Receiving(m, "valid_moves")
    /\ IF m.arg = "bad" THEN Answer("P_INVALIDPOS", "valid_moves")
       ELSE IF pit = "none" \/ ~arenaSet THEN Raise("valid_moves")
       ELSE Answer("P_MOVES", "valid_moves")

\* lines 178-188: Pit.set_move hands the move to the player source of the seat;
\* what the source returns to Arena.play is an input of PlayMoveAccepted and
\* PlayMoveRejected
RecvMakeMove(m) ==
    /\ Receiving(m, "make_move")
    /\ IF m.arg = "none" THEN Answer("P_NOMOVE", "make_move")
       ELSE IF parse_input(m.arg) \in {"AttributeError", "SyntaxError"}
            THEN Raise("make_move")
       ELSE IF parse_input(m.arg) = "None" THEN Answer("P_INVALIDMOVE", "make_move")
       ELSE IF pit = "none" THEN Raise("make_move")
       ELSE Answer("none", "make_move")

\* Pit.stop_play calls stop() of the Arena
StopPlay == ArenaStop

\* lines 190-208: the checks of num, then stop_play when the task is not done;
\* run is then suspended in stop_play / undo_move
RecvUndoMove(m) ==
    /\ Receiving(m, "undo_move")
    /\ IF m.num.kind = "none" THEN Answer("P_NOUNDO", "undo_move")
       ELSE IF PyInt(m.num).out = "ValueError" THEN Answer("P_INVALIDUNDO", "undo_move")
       ELSE IF PyInt(m.num).out = "TypeError" THEN Raise("undo_move")
       ELSE IF PyInt(m.num).val <= 0 THEN Answer("P_INVALIDUNDO", "undo_move")
       ELSE IF pit = "none" \/ task = "none" \/ ~arenaSet THEN Raise("undo_move")
       ELSE /\ undos < MaxUndos
            /\ undos' = undos + 1
            /\ IF ~TaskDone THEN StopPlay ELSE UNCHANGED <<running, stopped>>
            /\ loop' = "undo"
            /\ undoNum' = PyInt(m.num).val
            /\ seat' = m.pos
            /\ handler' = "undo_move"
            /\ resp' = "none"
            /\ initResult' = "none"
            /\ winner' = 0
            /\ UNCHANGED <<state, pitVars, history, blunder_history,
                           cur_player, time_index_p1, time_index_p2, kinds,
                           playVars, outVars, cells, lobbyVars, searchVars, aiAsked, accepted>>

\* lines 209-210: Arena.undo_move(num) drops the last num entries of the history
\* and fails when there are fewer
UndoMove ==
    /\ loop = "undo"
    /\ loop' = "recv"
    /\ IF undoNum > Len(history)
       THEN resp' = "P_INVALIDUNDO" /\ UNCHANGED history
       ELSE resp' = "P_UNDO" /\ history' = SubSeq(history, 1, Len(history) - undoNum)
    /\ seat' = "none"
    /\ undoNum' = 0
    /\ UNCHANGED <<state, handler, initResult, winner, pitVars,
                   running, blunder_history, cur_player, time_index_p1,
                   time_index_p2, kinds, playVars, outVars, bookVars, lobbyVars, searchVars>>

\* lines 213-216: stop_play, then run is suspended in `await self.pit.arena_task`
RecvSurrender(m) ==
    /\ Receiving(m, "surrender")
    /\ IF pit = "none" \/ task = "none" \/ ~arenaSet THEN Raise("surrender")
       ELSE /\ StopPlay
            /\ loop' = "surrender"
            /\ seat' = m.pos
            /\ handler' = "surrender"
            /\ resp' = "none"
            /\ initResult' = "none"
            /\ winner' = 0
            /\ UNCHANGED <<state, undoNum, pitVars, history, blunder_history,
                           cur_player, time_index_p1, time_index_p2, kinds,
                           playVars, outVars, cells, lobbyVars, searchVars, aiAsked, accepted, undos>>

\* lines 214, 216-219: the task is over: P_SURRENDER names the other seat
Surrendered ==
    /\ loop = "surrender" /\ task = "done"
    /\ loop' = "recv"
    /\ winner' = IF seat = "p1" THEN -1 ELSE 1
    /\ resp' = "P_SURRENDER"
    /\ state' = "FINISHED"
    /\ seat' = "none"
    /\ UNCHANGED <<handler, initResult, undoNum, pitVars, arenaVars, playVars,
                   outVars, bookVars, lobbyVars, searchVars>>

\* lines 216 and 327: awaiting a task that raised or was cancelled raises in run
AwaitRaises ==
    /\ loop \in {"surrender", "stop_evaluate"} /\ task \in {"failed", "cancelled"}
    /\ loop' = "crashed"
    /\ UNCHANGED <<state, resp, handler, initResult, seat, undoNum, winner, pitVars,
                   arenaVars, playVars, outVars, bookVars, lobbyVars, searchVars>>

\* lines 325-327
RecvStopEvaluate(m) ==
    /\ Receiving(m, "stop_evaluate")
    /\ IF pit = "none" \/ task = "none" \/ ~arenaSet THEN Raise("stop_evaluate")
       ELSE /\ StopPlay
            /\ loop' = "stop_evaluate"
            /\ seat' = seat
            /\ handler' = "stop_evaluate"
            /\ resp' = "none"
            /\ initResult' = "none"
            /\ winner' = 0
            /\ UNCHANGED <<state, undoNum, pitVars, history, blunder_history,
                           cur_player, time_index_p1, time_index_p2, kinds,
                           playVars, outVars, cells, lobbyVars, searchVars, aiAsked, accepted, undos>>

\* line 328
EvaluateStopped ==
    /\ loop = "stop_evaluate" /\ task = "done"
    /\ loop' = "recv"
    /\ state' = "WAITING"
    /\ UNCHANGED <<resp, handler, initResult, seat, undoNum, winner, pitVars,
                   arenaVars, playVars, outVars, bookVars, lobbyVars, searchVars>>

\* lines 221-224 and 334
RecvQuit(m) ==
    /\ Receiving(m, "quit")
    /\ loop' = "closed"
    /\ resp' = "P_QUIT"
    /\ handler' = "quit"
    /\ initResult' = "none"
    /\ winner' = 0
    /\ UNCHANGED <<state, seat, undoNum, pitVars, arenaVars, playVars,
                   outVars, bookVars, lobbyVars, searchVars>>

\* lines 240-247: Arena.show_blunder returns the list of blunders of the seat
RecvBlunder(m) ==
    /\ Receiving(m, "blunder")
    /\ IF ~arenaSet THEN Raise("blunder")
       ELSE \/ Answer("P_BLUNDER", "blunder")
            \/ Answer("P_BLUNDERLIST", "blunder")

\* Arena.timeline: the cursor of a seat over the history
Cursor(pos) == IF pos = "p1" THEN time_index_p1 ELSE time_index_p2

\* Arena.timeline: the cursor goes to index c when c is an index of a history
\* of n entries; otherwise the result is None and the cursor stays where it is
timeline(cur, c, n) ==
    IF c >= 0 /\ c < n
    THEN [ok |-> TRUE, index |-> c]
    ELSE [ok |-> FALSE, index |-> cur]

\* handle_timeline lines 336-351: P_TIMELINE with the cursor at c when c is an
\* index of the history, P_INVALIDTIMELINE otherwise
TimelineTo(pos, c, hd) ==
    /\ handler' = hd
    /\ initResult' = "none"
    /\ IF timeline(Cursor(pos), c, Len(history)).ok
       THEN /\ resp' = "P_TIMELINE"
            /\ time_index_p1' = IF pos = "p1" THEN c ELSE time_index_p1
            /\ time_index_p2' = IF pos = "p2" THEN c ELSE time_index_p2
       ELSE /\ resp' = "P_INVALIDTIMELINE"
            /\ UNCHANGED <<time_index_p1, time_index_p2>>
    /\ winner' = 0
    /\ UNCHANGED <<state, loop, seat, undoNum, pitVars, running, history,
                   blunder_history, cur_player, kinds, playVars, outVars, bookVars, lobbyVars, searchVars>>

\* lines 249-266
RecvTimeline(m) ==
    /\ Receiving(m, "timeline")
    /\ IF m.num.kind = "none" THEN Answer("P_NOTIMELINE", "timeline")
       ELSE IF PyInt(m.num).out = "ValueError"
            THEN Answer("P_INVALIDTIMELINE", "timeline")
       ELSE IF PyInt(m.num).out = "TypeError" THEN Raise("timeline")
       ELSE IF PyInt(m.num).val < 0 THEN Answer("P_INVALIDTIMELINE", "timeline")
       ELSE IF ~arenaSet THEN Raise("timeline")
       ELSE TimelineTo(m.pos, PyInt(m.num).val, "timeline")

\* lines 268-269
RecvStep(m) ==
    /\ Receiving(m, "step")
    /\ IF ~arenaSet THEN Raise("step")
       ELSE TimelineTo(m.pos, Cursor(m.pos) + 1, "step")

\* lines 271-272
RecvUnstep(m) ==
    /\ Receiving(m, "unstep")
    /\ IF ~arenaSet THEN Raise("unstep")
       ELSE TimelineTo(m.pos, Cursor(m.pos) - 1, "unstep")

\* lines 274-281
RecvGames(m) ==
    /\ Receiving(m, "games")
    /\ Answer("P_GAMES", "games")

\* lines 329-330: any other key
RecvOther(m) ==
    /\ Receiving(m, "other")
    /\ Answer("none", "other")

\* lines 123-330: `match command_key` for a message the gate let through
Dispatch(m) ==
    CASE m.key = "create" -> RecvCreate(m)
      [] m.key = "evaluate" -> RecvEvaluate(m)
      [] m.key = "new_game" -> RecvNewGame(m)
      [] m.key = "valid_moves" -> RecvValidMoves(m)
      [] m.key = "make_move" -> RecvMakeMove(m)
      [] m.key = "undo_move" -> RecvUndoMove(m)
      [] m.key = "surrender" -> RecvSurrender(m)
      [] m.key = "stop_evaluate" -> RecvStopEvaluate(m)
      [] m.key = "quit" -> RecvQuit(m)
      [] m.key = "blunder" -> RecvBlunder(m)
      [] m.key = "timeline" -> RecvTimeline(m)
      [] m.key = "step" -> RecvStep(m)
      [] m.key = "unstep" -> RecvUnstep(m)
      [] m.key = "games" -> RecvGames(m)
      [] OTHER -> RecvOther(m)

\* one message with command_key k read by line 90 and handled up to the next
\* await of run
ReceiveKey(k) ==
    IF k \notin Admitted(state)
    THEN RecvRejected
    ELSE \E m \in MessagesOf[k] : Dispatch(m)

\* GameClient.__init__ lines 26-33; the Arena fields hold the values of a fresh one
Init ==
    /\ state = "WAITING" /\ loop = "recv" /\ resp = "none" /\ handler = "none"
    /\ initResult = "none" /\ seat = "none" /\ undoNum = 0 /\ winner = 0
    /\ pit = "none" /\ arenaSet = FALSE /\ task = "none" /\ taskKind = "game"
    /\ orphans = 0
    /\ kinds = [p1 |-> "play", p2 |-> "play"]
    /\ cells = ClientCells
    /\ aiAsked = 0
    /\ FreshArena
    /\ NoFrontEnd
    /\ NoSearch

Next ==
    \/ RecvNoJson
    \/ RecvDisconnect
    \/ RecvRejected
    \/ \E m \in MessagesOf["create"] : RecvCreate(m)
    \/ \E m \in MessagesOf["evaluate"] : RecvEvaluate(m)
    \/ \E m \in MessagesOf["new_game"] : RecvNewGame(m)
    \/ \E m \in MessagesOf["valid_moves"] : RecvValidMoves(m)
    \/ \E m \in MessagesOf["make_move"] : RecvMakeMove(m)
    \/ \E m \in MessagesOf["undo_move"] : RecvUndoMove(m)
    \/ \E m \in MessagesOf["surrender"] : RecvSurrender(m)
    \/ \E m \in MessagesOf["stop_evaluate"] : RecvStopEvaluate(m)
    \/ \E m \in MessagesOf["quit"] : RecvQuit(m)
    \/ \E m \in MessagesOf["blunder"] : RecvBlunder(m)
    \/ \E m \in MessagesOf["timeline"] : RecvTimeline(m)
    \/ \E m \in MessagesOf["step"] : RecvStep(m)
    \/ \E m \in MessagesOf["unstep"] : RecvUnstep(m)
    \/ \E m \in MessagesOf["games"] : RecvGames(m)
    \/ \E m \in MessagesOf["other"] : RecvOther(m)
    \/ UndoMove
    \/ Surrendered
    \/ EvaluateStopped
    \/ AwaitRaises
    \/ PlayStep
    \/ EvalStart
    \/ EvalFinish

Spec == Init /\ [][Next]_vars

\* The event loop resumes every task that is ready (asyncio runs its ready
\* queue in order): a step of play, of the evaluation, or of run past the await
\* it is suspended at is taken once it stays possible.  When the next message
\* arrives is up to the clients.
SpecLive ==
    /\ Init
    /\ [][Next]_vars
    /\ WF_vars(PlayStep)
    /\ WF_vars(EvalStart)
    /\ WF_vars(EvalFinish)
    /\ WF_vars(UndoMove)
    /\ WF_vars(Surrendered)
    /\ WF_vars(EvaluateStopped)
    /\ WF_vars(AwaitRaises)

\* The rule engine on its own: from the initial board the player to move sets
\* a mark on any empty cell through getNextState, as long as getGameEnded
\* reports the game as not ended.  The boards and players met are the inputs
\* of getNextState and getGameEnded that legal play produces.
InitRules == Init

RulesMove ==
    /\ getGameEnded(board, player) = 0
    /\ \E a \in 0 .. N * N - 1 :
          /\ ~getNextStateRaises(board, player, a)
          /\ board' = getNextState(board, player, a).board
          /\ player' = getNextState(board, player, a).player
    /\ UNCHANGED <<clientVars, pitVars, arenaVars, pc, it, ai, action, ret,
                   outVars, bookVars, lobbyVars, searchVars>>

SpecRules == InitRules /\ [][RulesMove]_vars

----------------------------------------------------------------------------
(* FastAPIServer: fastAPIServer.py, and the LobbyManager of its socket      *)
(* server                                                                  *)

\* Lobby: the connections on its seats; Lobby.empty()
Members(l) == {l[s] : s \in SeatPos} \ {NoClient}
empty(l) == Members(l) = {}

\* the seat a joining connection is given: the first free one of p1, p2, sp
FreeSeat(l) ==
    IF l["p1"] = NoClient THEN "p1"
    ELSE IF l["p2"] = NoClient THEN "p2"
    ELSE IF l["sp"] = NoClient THEN "sp"
    ELSE "none"

\* LobbyManager.lobby_exist(key)
lobby_exist(L, key) == key \in DOMAIN L

\* LobbyManager.lobby_of_client(client): the keys of the lobbies client sits in,
\* {} for None
lobby_of_client(L, c) == {k \in DOMAIN L : c \in Members(L[k])}

\* LobbyManager.client_in_lobby(client)
client_in_lobby(L, c) == lobby_of_client(L, c) # {}

\* LobbyManager.create_lobby(): a lobby with empty seats under a fresh key
create_lobby(L) ==
    LET free == LobbyKeys \ DOMAIN L
        key == CHOOSE k \in free : \A j \in free : k <= j
    IN  [key |-> key,
         lobbies |-> [k \in DOMAIN L \cup {key} |->
                         IF k = key THEN EmptyLobby ELSE L[k]]]

\* LobbyManager.join(key, client): fails if the key is unknown, the connection
\* is seated already, or all seats are taken
join(L, key, c) ==
    IF key \notin DOMAIN L \/ client_in_lobby(L, c) \/ FreeSeat(L[key]) = "none"
    THEN [ok |-> FALSE, lobbies |-> L]
    ELSE [ok |-> TRUE, lobbies |-> [L EXCEPT ![key][FreeSeat(L[key])] = c]]

\* LobbyManager.leave(client): frees the seat of the connection
leave(L, c) ==
    IF ~client_in_lobby(L, c)
    THEN [ok |-> FALSE, lobbies |-> L]
    ELSE [ok |-> TRUE,
          lobbies |-> [k \in DOMAIN L |->
                          [s \in SeatPos |->
                              IF L[k][s] = c THEN NoClient ELSE L[k][s]]]]

\* LobbyManager.swap_to(pos, client): fails if the target seat is occupied
swap_to(L, pos, c) ==
    IF ~client_in_lobby(L, c)
    THEN [ok |-> FALSE, lobbies |-> L]
    ELSE LET key == CHOOSE k \in lobby_of_client(L, c) : TRUE
         IN  IF L[key][pos] # NoClient
             THEN [ok |-> FALSE, lobbies |-> L]
             ELSE [ok |-> TRUE,
                   lobbies |-> [L EXCEPT ![key] =
                                   [s \in SeatPos |->
                                       IF s = pos THEN c
                                       ELSE IF L[key][s] = c THEN NoClient
                                       ELSE L[key][s]]]]

\* LobbyManager.remove_lobby(key): only when no seat is occupied
remove_lobby(L, key) ==
    IF key \in DOMAIN L /\ empty(L[key])
    THEN [ok |-> TRUE, lobbies |-> [k \in DOMAIN L \ {key} |-> L[k]]]
    ELSE [ok |-> FALSE, lobbies |-> L]

sessionVars == <<clientVars, pitVars, arenaVars, playVars, outVars, bookVars,
                 searchVars>>

\* lines 152-157: send_response(client, response_code, response_msg)
Respond(code, msg) == lobbyResp' = [code |-> code, msg |-> msg] /\ launched' = NoLaunch

\* lines 129-132: connect
Connect(c) ==
    /\ c \notin connections
    /\ connections' = connections \cup {c}
    /\ UNCHANGED <<lobbies, lobbyResp, launched, sessionVars>>

\* lines 56-62: lobby create
LobbyCreate(c) ==
    /\ c \in connections
    /\ IF ~client_in_lobby(lobbies, c)
       THEN /\ LobbyKeys \ DOMAIN lobbies # {}
            /\ LET made == create_lobby(lobbies)
               IN  lobbies' = join(made.lobbies, made.key, c).lobbies
            /\ Respond("SUCCESS", "Lobby created!")
       ELSE /\ Respond("ERROR", "Client already in a lobby!")
            /\ UNCHANGED lobbies
    /\ UNCHANGED <<connections, sessionVars>>

\* lines 53, 64-76: lobby start; whether Lobby.start() finds the lobby ready is
\* left open.  The command line of the session process ends with lobby_key,
\* which line 53 read from the message
LobbyStart(c, key) ==
    /\ c \in connections
    /\ IF client_in_lobby(lobbies, c)
       THEN \/ /\ lobbyResp' = [code |-> "SUCCESS", msg |-> "Lobby starting!"]
               /\ launched' = key
            \/ Respond("ERROR", "Lobby not ready to start!")
       ELSE Respond("ERROR", "Client not in a lobby!")
    /\ UNCHANGED <<connections, lobbies, sessionVars>>

\* A join that answers SUCCESS whatever LobbyManager.join returned
LobbyJoinUnchecked(c, key) ==
    /\ c \in connections
    /\ IF ~lobby_exist(lobbies, key)
       THEN Respond("ERROR", "Lobby does not exist!") /\ UNCHANGED lobbies
       ELSE IF client_in_lobby(lobbies, c)
       THEN Respond("ERROR", "Client already in a lobby!") /\ UNCHANGED lobbies
       ELSE /\ lobbies' = join(lobbies, key, c).lobbies
            /\ Respond("SUCCESS", "Joined lobby!")
    /\ UNCHANGED <<connections, sessionVars>>

\* lines 78-88: lobby join
LobbyJoin(c, key) ==
    /\ c \in connections
    /\ IF ~lobby_exist(lobbies, key)
       THEN Respond("ERROR", "Lobby does not exist!") /\ UNCHANGED lobbies
       ELSE IF client_in_lobby(lobbies, c)
       THEN Respond("ERROR", "Client already in a lobby!") /\ UNCHANGED lobbies
       ELSE IF ~join(lobbies, key, c).ok
       THEN Respond("ERROR", "Failed to join lobby!") /\ UNCHANGED lobbies
       ELSE /\ lobbies' = join(lobbies, key, c).lobbies
            /\ Respond("SUCCESS", "Joined lobby!")
    /\ UNCHANGED <<connections, sessionVars>>

\* lines 90-94: lobby leave
LobbyLeave(c) ==
    /\ c \in connections
    /\ IF ~leave(lobbies, c).ok
       THEN Respond("ERROR", "Client not in a lobby to leave!") /\ UNCHANGED lobbies
       ELSE /\ lobbies' = leave(lobbies, c).lobbies
            /\ Respond("SUCCESS", "Client left lobby")
    /\ UNCHANGED <<connections, sessionVars>>

\* lines 96-108: lobby swap
LobbySwap(c, pos) ==
    /\ c \in connections
    /\ IF ~client_in_lobby(lobbies, c)
       THEN Respond("ERROR", "Client not in a lobby!") /\ UNCHANGED lobbies
       ELSE IF pos \notin SeatPos
       THEN Respond("ERROR", "Pos unknown!") /\ UNCHANGED lobbies
       ELSE IF ~swap_to(lobbies, pos, c).ok
       THEN Respond("ERROR", "Pos already full!") /\ UNCHANGED lobbies
       ELSE /\ lobbies' = swap_to(lobbies, pos, c).lobbies
            /\ Respond("SUCCESS", "Client swapped!")
    /\ UNCHANGED <<connections, sessionVars>>

\* lines 110-115: lobby pos
LobbyPos(c) ==
    /\ c \in connections
    /\ IF ~client_in_lobby(lobbies, c)
       THEN Respond("ERROR", "Client not in a lobby!")
       ELSE Respond("SUCCESS", "Client Pos is")
    /\ UNCHANGED <<connections, lobbies, sessionVars>>

\* lines 117-122: lobby list
LobbyList(c, key) ==
    /\ c \in connections
    /\ IF ~lobby_exist(lobbies, key)
       THEN Respond("ERROR", "Lobby not found!")
       ELSE Respond("SUCCESS", "Status of lobby")
    /\ UNCHANGED <<connections, lobbies, sessionVars>>

\* lines 23-25, 39-40, 124-125: no json, an unknown command or command_key
LobbyOther(c) ==
    /\ c \in connections
    /\ Respond("ERROR", "not found!")
    /\ UNCHANGED <<connections, lobbies, sessionVars>>

\* A disconnect that forgets the seat of the connection
DisconnectKeepsSeat(c) ==
    /\ c \in connections
    /\ connections' = connections \ {c}
    /\ UNCHANGED <<lobbies, lobbyResp, launched, sessionVars>>

\* lines 26-27, 32-33, 41, 134-144: the connection ends; disconnect takes the
\* client out of its lobby and removes the lobby when that left it empty
Disconnect(c) ==
    /\ c \in connections
    /\ LET keys == lobby_of_client(lobbies, c)
           left == leave(lobbies, c).lobbies
       IN  IF keys = {}
           THEN UNCHANGED lobbies
           ELSE LET key == CHOOSE k \in keys : TRUE
                IN  IF empty(left[key])
                    THEN lobbies' = remove_lobby(left, key).lobbies
                    ELSE lobbies' = left
    /\ connections' = connections \ {c}
    /\ UNCHANGED <<lobbyResp, launched, sessionVars>>

NextLobby ==
    \/ \E c \in Clients : Connect(c)
    \/ \E c \in Clients : LobbyCreate(c)
    \/ \E c \in Clients, key \in LobbyKeys \cup {NoKey} : LobbyStart(c, key)
    \/ \E c \in Clients, key \in LobbyKeys \cup {UnknownKey} : LobbyJoin(c, key)
    \/ \E c \in Clients : LobbyLeave(c)
    \/ \E c \in Clients, pos \in SeatPos \cup {"top"} : LobbySwap(c, pos)
    \/ \E c \in Clients : LobbyPos(c)
    \/ \E c \in Clients, key \in LobbyKeys \cup {UnknownKey} : LobbyList(c, key)
    \/ \E c \in Clients : LobbyOther(c)
    \/ \E c \in Clients : Disconnect(c)

InitLobby == Init

SpecLobby == InitLobby /\ [][NextLobby]_vars

----------------------------------------------------------------------------
(* MCTS (Tools/mcts.py), created by Pit.init_nn with numMCTSSims simulations.
   The action a simulation selects at a node is the one with the highest
   upper confidence bound; which one that is depends on the network's priors
   and values, so the selection is any valid action of the node.            *)

\* The simulations of one call of getActionProb (args.numMCTSSims)
numMCTSSims == 3

\* TicTacToeGame.getValidMoves: the empty cells, and the pass action only when
\* no cell is empty
getValidMoves(b, p) ==
    IF has_legal_moves(b)
    THEN {a \in 0 .. N * N - 1 : b[a \div N][a % N] = 0}
    ELSE {N * N}

\* TicTacToeGame.getCanonicalForm: the board from the view of the player to move
getCanonicalForm(b, p) == [r \in Idx |-> [c \in Idx |-> p * b[r][c]]]

\* The late position  X X O / O O X / X . .  with O to move; both moves draw
LateBoard ==
    [r \in Idx |-> [c \in Idx |->
        CASE r = 0 -> (IF c = 2 THEN -1 ELSE 1)
          [] r = 1 -> (IF c = 2 THEN 1 ELSE -1)
          [] OTHER -> (IF c = 0 THEN 1 ELSE 0)]]

\* The positions the search is asked about, as canonical boards
SearchRoots ==
    {[board |-> getCanonicalForm(getInitBoard, 1), player |-> 1],
     [board |-> getCanonicalForm(LateBoard, -1), player |-> 1]}

\* The position after action a at position s, canonical again
SearchChild(s, a) ==
    [board  |-> getCanonicalForm(getNextState(s.board, 1, a).board,
                                 getNextState(s.board, 1, a).player),
     player |-> 1]

Edges(p) == {p[i] : i \in DOMAIN p}

\* A backpropagation that also counts a visit of an edge of the root for the
\* simulation that only expands the root
BackpropagateRootToo(p) ==
    LET first == IF p = <<>> /\ ~(\E e \in DOMAIN Nsa : e[1] = root)
                 THEN {<<root, CHOOSE a \in getValidMoves(root.board, 1) : TRUE>>}
                 ELSE {}
        es == Edges(p) \cup first
    IN  [e \in DOMAIN Nsa \cup es |->
            (IF e \in DOMAIN Nsa THEN Nsa[e] ELSE 0) + (IF e \in es THEN 1 ELSE 0)]

\* Backpropagation: N of every edge on the selection path grows by one
Backpropagate(p) ==
    [e \in DOMAIN Nsa \cup Edges(p) |->
        (IF e \in DOMAIN Nsa THEN Nsa[e] ELSE 0) + (IF e \in Edges(p) THEN 1 ELSE 0)]

\* The end of a simulation: the path is backed up and the simulation counted
SimulationEnds ==
    /\ Nsa' = Backpropagate(path)
    /\ sims' = sims + 1
    /\ searchPc' = IF sims + 1 = numMCTSSims THEN "done" ELSE "idle"
    /\ path' = <<>>
    /\ node' = root

\* getActionProb(canonicalBoard): a search call starts with an empty tree
getActionProb ==
    /\ searchPc \in {"none", "done"}
    /\ \E r \in SearchRoots : root' = r /\ node' = r
    /\ Ps' = {}
    /\ Nsa' = NoVisits
    /\ path' = <<>>
    /\ sims' = 0
    /\ searchPc' = "idle"
    /\ UNCHANGED <<clientVars, pitVars, arenaVars, playVars, outVars, bookVars, lobbyVars>>

\* a simulation starts at the root
SearchBegin ==
    /\ searchPc = "idle"
    /\ searchPc' = "search"
    /\ node' = root
    /\ path' = <<>>
    /\ UNCHANGED <<clientVars, pitVars, arenaVars, playVars, outVars, bookVars, lobbyVars, root, Ps, Nsa, sims>>

\* select: at a node of the tree that is not terminal, take an edge
SearchSelect ==
    /\ searchPc = "search"
    /\ getGameEnded(node.board, 1) = 0
    /\ node \in Ps
    /\ \E a \in getValidMoves(node.board, 1) :
          /\ path' = Append(path, <<node, a>>)
          /\ node' = SearchChild(node, a)
    /\ UNCHANGED <<clientVars, pitVars, arenaVars, playVars, outVars, bookVars, lobbyVars, root, Ps, Nsa, sims, searchPc>>

\* expand/evaluate: a state absent from the tree is added and evaluated once
SearchExpand ==
    /\ searchPc = "search"
    /\ getGameEnded(node.board, 1) = 0
    /\ node \notin Ps
    /\ Ps' = Ps \cup {node}
    /\ SimulationEnds
    /\ UNCHANGED <<clientVars, pitVars, arenaVars, playVars, outVars, bookVars, lobbyVars, root>>

\* a terminal state: the game's outcome is the value, nothing is expanded
SearchTerminal ==
    /\ searchPc = "search"
    /\ getGameEnded(node.board, 1) # 0
    /\ SimulationEnds
    /\ UNCHANGED <<clientVars, pitVars, arenaVars, playVars, outVars, bookVars, lobbyVars, root, Ps>>

NextSearch ==
    \/ getActionProb
    \/ SearchBegin
    \/ SearchSelect
    \/ SearchExpand
    \/ SearchTerminal

InitSearch == Init

SpecSearch == InitSearch /\ [][NextSearch]_vars

----------------------------------------------------------------------------
(* Properties                                                              *)

\* The admissible sets and conflict codes as the protocol table states them
TableAdmissible(st) ==
    CASE st = "WAITING" -> {"create", "evaluate", "quit", "games"}
      [] st = "RUNNING" ->
            {"valid_moves", "make_move", "undo_move", "surrender", "blunder"}
      [] st = "FINISHED" ->
            {"new_game", "create", "timeline", "step", "unstep", "blunder", "quit"}
      [] OTHER -> {"stop_evaluate"}

TableConflict(st) ==
    CASE st = "WAITING" -> "P_NOINIT"
      [] st = "RUNNING" -> "P_STILLRUNNING"
      [] st = "FINISHED" -> "P_GAMEOVER"
      [] OTHER -> "P_STILLRUNNING"

\* what a command that is not dispatched leaves alone: the protocol state, the
\* position of run, the Pit, the Arena and its play
Untouched ==
    /\ state' = state
    /\ loop' = loop
    /\ UNCHANGED <<playVars, pitVars, arenaVars, outVars, bookVars>>

\* C1: in WAITING, RUNNING and FINISHED a command whose key is outside the
\* admissible set of the state is answered with the conflict code of the state,
\* enters no handler and changes neither the protocol state nor the session;
\* a command whose key is inside the set enters the handler of its key.
\* A step of run on a message with key k is RecvRejected when the gate of the
\* code holds k back and Dispatch(m) for a message m with that key otherwise.
C1_GateFollowsTable ==
    [][(loop = "recv" /\ state \in {"WAITING", "RUNNING", "FINISHED"}) =>
          /\ RecvRejected =>
                /\ \A k \in Keys \ Admitted(state) : k \notin TableAdmissible(state)
                /\ resp' = TableConflict(state)
                /\ handler' = "none"
                /\ Untouched
          /\ \A k \in Admitted(state) :
                (\E m \in MessagesOf[k] : Dispatch(m)) =>
                   IF k \in TableAdmissible(state)
                   THEN handler' = k
                   ELSE /\ resp' = TableConflict(state)
                        /\ handler' = "none"
                        /\ Untouched]_vars

\* a conflict answer of the gate while a game is being played
C1_Witness ==
    /\ state = "RUNNING" /\ task = "active" /\ taskKind = "game"
    /\ resp = "P_STILLRUNNING" /\ handler = "none"

\* C2: in EVALUATE every command other than stop_evaluate enters no handler and
\* changes neither the protocol state nor the session.
C2_EvaluateAdmitsOnlyStop ==
    [][(loop = "recv" /\ state = "EVALUATE") =>
          \A k \in Keys \ {"stop_evaluate"} :
             ReceiveKey(k) => (handler' = "none" /\ Untouched)]_vars

\* C3: create and new_game change the protocol state only when init_game
\* returned SUCCESS; otherwise the state stays and no session task is active.
C3_RunningOnlyOnSuccess ==
    [][\A k \in {"create", "new_game"} :
          (ReceiveKey(k) /\ initResult' # "SUCCESS") =>
             (state' = state /\ task' # "active")]_vars

\* C4: when play has returned after stop(), its board, player and ply index are
\* those of the last history entry.
C4_StoppedPlayEndsOnHistory ==
    (pc = "returned" /\ stopped) =>
        /\ Len(history) > 0
        /\ history[Len(history)] = [board |-> board, player |-> player, it |-> it]

\* C5: at the start of every turn and once the loop is left, the ply index is
\* the number of actions getNextState accepted.
C5_PlyCountsAccepted ==
    pc \in {"sleep_outer", "bcast_final", "send_gameover", "update", "returned"}
        => it = accepted

\* C6: a rejected action of a turn without AI request is answered with
\* P_INVALIDMOVE to the seat of the active player, and the same turn is polled
\* again: board, player, ply index, history, blunder_history, turn
\* notifications and board broadcasts stay as they are.
C6_RejectionRepolls ==
    [][/\ (pc = "sleep_inner" /\ ~ai /\ action'.kind = "move"
              /\ getNextStateRaises(board, player, action'.val)) =>
             /\ arenaOut' = Msg("P_INVALIDMOVE", SeatOf(player))
             /\ pc' = "send_invalid"
             /\ UNCHANGED <<board, player, it, history, blunder_history, turnNotes,
                            boardCasts, accepted>>
       /\ (pc = "send_invalid" /\ pc' # pc) =>
             /\ pc' = IF running THEN "sleep_inner" ELSE "update"
             /\ UNCHANGED <<board, player, it, history, blunder_history, turnNotes,
                            boardCasts, accepted>>]_vars

\* the turn is being polled again after a P_INVALIDMOVE
C6_Witness ==
    /\ pc = "sleep_inner" /\ running /\ arenaOut.code = "P_INVALIDMOVE"
    /\ Len(history) = it + 1

\* C7: the i-th history entry carries ply index i (counting from 0), and the
\* history has one entry per turn started: as many entries as the ply index,
\* or one more while the turn of that ply has been recorded.
C7_HistoryPlies ==
    /\ \A i \in 1 .. Len(history) : history[i].it = i - 1
    /\ Len(history) \in {it, it + 1}

\* a game that ended on its own after five plies
C7_Witness ==
    /\ pc = "returned" /\ gameOvers = 1 /\ Len(history) = 6 /\ ~stopped

\* C8: once stop() has been called on a running play, no step of play changes
\* the board, appends to the history, or sends a turn notification or
\* P_GAMEOVER.
C8_StopObservedAtOnce ==
    [][(stopped /\ pc # "returned") =>
          UNCHANGED <<board, history, turnNotes, gameOvers>>]_vars

\* C9: a cancelled play leaves the Arena not running and with every accepted
\* action counted in the ply index.
C9_CancelledIsIdle ==
    task = "cancelled" => (running = FALSE /\ it = accepted)

\* C10: create, new_game and evaluate that arrive while a task is active are
\* answered with P_STILLRUNNING and leave the session alone, and no task is
\* ever replaced while it has not finished.
C10_OneSessionTask ==
    /\ [](orphans = 0)
    /\ [][task = "active" =>
             \A k \in {"create", "new_game", "evaluate"} :
                ReceiveKey(k) =>
                   (resp' \in {"P_STILLRUNNING"} /\ Untouched)]_vars

\* the guard of a handler answered while an evaluation task is active
C10_Witness ==
    /\ task = "active" /\ resp = "P_STILLRUNNING"
    /\ handler \in {"create", "new_game", "evaluate"}

\* A message whose required field is absent or ill-typed, as the protocol
\* describes its commands: make_move takes an integer action index or the text
\* of an integer tuple, undo_move an integer num > 0, timeline an integer
\* num >= 0, evaluate an integer num with 2 <= num <= 100, create and evaluate
\* a complete configuration, valid_moves a position that is an index.
StructurallyInvalid(m) ==
    CASE m.key = "make_move" -> m.arg \notin {"int", "digits", "tuple"}
      [] m.key = "undo_move" -> m.num.kind # "int" \/ m.num.val <= 0
      [] m.key = "timeline" -> m.num.kind # "int" \/ m.num.val < 0
      [] m.key = "evaluate" ->
            \/ m.num.kind # "int" \/ m.num.val < 2 \/ m.num.val > 100
            \/ m.cfg = "badargs"
      [] m.key = "create" -> m.cfg = "badargs"
      [] m.key = "valid_moves" -> m.arg = "bad"
      [] OTHER -> FALSE

\* the error codes of the field checks of a handler
FieldErrors(k) ==
    CASE k = "make_move" -> {"P_NOMOVE", "P_INVALIDMOVE"}
      [] k = "undo_move" -> {"P_NOUNDO", "P_INVALIDUNDO"}
      [] k = "timeline" -> {"P_NOTIMELINE", "P_INVALIDTIMELINE"}
      [] OTHER -> {}

\* C11: the protocol state changes only by create or new_game (to RUNNING), by
\* the completion of surrender or a game that ended on a terminal outcome (to
\* FINISHED), by evaluate (to EVALUATE) and by the completion of stop_evaluate
\* (to WAITING); a command the gate holds back, a command with an absent or
\* ill-typed field and the completion of undo_move leave it as it is.
C11_StateTransitions ==
    [][/\ state' # state =>
             \/ /\ loop = "recv" /\ handler' \in {"create", "new_game"}
                /\ state' = "RUNNING"
             \/ /\ loop = "surrender" /\ handler' = "surrender"
                /\ state' = "FINISHED"
             \/ /\ pc' = "returned" /\ pc # "returned" /\ gameOvers = 1
                /\ state' = "FINISHED"
             \/ /\ loop = "recv" /\ handler' = "evaluate"
                /\ state' = "EVALUATE"
             \/ /\ loop = "stop_evaluate" /\ handler' = "stop_evaluate"
                /\ state' = "WAITING"
       /\ RecvRejected => state' = state
       /\ \A m \in Messages :
             (/\ loop = "recv" /\ m.key \in Admitted(state)
              /\ StructurallyInvalid(m) /\ Dispatch(m)) => state' = state
       /\ loop = "undo" => state' = state]_vars

\* C12: once the play of a session has returned after a terminal outcome of the
\* game, the protocol state becomes FINISHED.
C12_TerminalOutcomeFinishes ==
    (taskKind = "game" /\ pc = "returned" /\ gameOvers = 1 /\ LoopAlive)
        ~> (state = "FINISHED" \/ ~LoopAlive)

\* C13: an evaluate with a valid configuration and an integer num, received in
\* WAITING while no task is running, starts the evaluation exactly when
\* 2 <= num <= 100; any other integer is answered with P_INVALIDEVALUATION and
\* leaves the protocol state and the session alone.
C13_EvaluateNumRange ==
    [][\A m \in MessagesOf["evaluate"] :
          (/\ loop = "recv" /\ state = "WAITING" /\ ~StillRunning
           /\ m.cfg = "ok" /\ m.num.kind = "int"
           /\ RecvEvaluate(m)) =>
             IF 2 <= m.num.val /\ m.num.val <= 100
             THEN resp' = "SUCCESS" /\ state' = "EVALUATE" /\ task' = "active"
             ELSE resp' = "P_INVALIDEVALUATION" /\ Untouched]_vars

\* C14: a make_move, undo_move or timeline whose required field is absent or
\* ill-typed is answered with an error code of the field check of its handler
\* and goes no further: run stays at the receive, and the protocol state, the
\* Pit, the Arena and its play are as before.
C14_FieldChecksHoldBack ==
    [][\A k \in {"make_move", "undo_move", "timeline"} :
          \A m \in MessagesOf[k] :
             (/\ loop = "recv" /\ k \in Admitted(state)
              /\ StructurallyInvalid(m) /\ Dispatch(m)) =>
                (resp' \in FieldErrors(k) /\ Untouched)]_vars

\* C15: when getNextState rejects an action in a turn in which an AI move was
\* requested, play raises: the task has failed, no P_INVALIDMOVE or any other
\* message is sent, board, player, ply index, history and blunder_history are
\* as before the action, and no step of play follows.
C15_SearchRejectionFatal ==
    [][/\ (pc = "sleep_inner" /\ ai /\ action'.kind = "move"
              /\ getNextStateRaises(board, player, action'.val)) =>
             /\ pc' = "raised"
             /\ task' = "failed"
             /\ UNCHANGED <<board, player, it, history, blunder_history, outVars,
                            accepted>>
       /\ pc = "raised" =>
             UNCHANGED <<playVars, outVars, blunder_history, time_index_p1,
                         time_index_p2, cur_player, accepted>>]_vars

\* play has raised on a rejected action after the AI move request of the turn
C15_Witness ==
    /\ pc = "raised" /\ task = "failed" /\ ai /\ action.kind = "move"
    /\ arenaOut.code = "ai_move" /\ Len(history) = it + 1

\* C16: after play has raised on a rejected search move the Arena is not
\* running, an internal-error response has been sent, and run has not been left
\* by an exception of a later surrender.
C16_FatalEndsSessionOnly ==
    task = "failed" =>
        /\ running = FALSE
        /\ arenaOut.code = "INTERNALERROR"
        /\ ~(loop = "crashed" /\ handler = "surrender")

\* the final position is the last history entry, recorded once and broadcast
\* once more than there were turns, and every accepted action is counted
FinalRecorded ==
    /\ getGameEnded(board, player) # 0
    /\ Len(history) = it + 1
    /\ history[Len(history)] = [board |-> board, player |-> player, it |-> it]
    /\ Cardinality({i \in 1 .. Len(history) : history[i] = history[Len(history)]}) = 1
    /\ boardCasts = turnNotes + 1
    /\ it = accepted

\* C17: when the loop of play is left while play is running, the final
\* position is appended to the history once and broadcast, and then one
\* P_GAMEOVER is sent whose result is the one play returns and whose turn is
\* the number of accepted actions; when the loop is left after stop(), the
\* history and the broadcasts end with the last turn and no P_GAMEOVER is sent.
C17_GameOverOnce ==
    /\ gameOvers <= 1
    /\ pc = "bcast_final" => (gameOvers = 0 /\ FinalRecorded)
    /\ (pc \in {"send_gameover", "update", "returned"} /\ gameOvers = 1) =>
          /\ FinalRecorded
          /\ arenaOut = [code |-> "P_GAMEOVER", to |-> "all",
                         result |-> PlayResult(board, player, it).result,
                         turn |-> accepted]
    /\ (pc \in {"update", "returned"} /\ gameOvers = 0) =>
          /\ stopped
          /\ Len(history) = turnNotes
          /\ boardCasts = turnNotes
          /\ arenaOut.code # "P_GAMEOVER"
    /\ (pc \in {"update", "returned"} /\ ~stopped) => gameOvers = 1

\* player 2 has won with the eighth action and the game over was reported
C17_Witness ==
    /\ pc = "returned" /\ gameOvers = 1 /\ arenaOut.code = "P_GAMEOVER"
    /\ arenaOut.turn = 8 /\ accepted = 8

\* C18: when the player who made the last action has completed a line, the
\* result of P_GAMEOVER and of the return value is the win value 1, for
\* player 1 and for player -1 alike.
C18_ResultOfLastMover ==
    (pc \in {"send_gameover", "update", "returned"} /\ gameOvers = 1
        /\ is_win(board, -player)) =>
          /\ arenaOut.result = 1
          /\ pc = "returned" => ret.result = 1

\* C19: the result reported by play is 0 only when the game was not over: a
\* full board without a line is reported with a value other than 0, 1 and -1.
C19_DrawNotZero ==
    /\ (pc \in {"send_gameover", "update", "returned"} /\ gameOvers = 1) =>
          /\ arenaOut.result # 0
          /\ (~is_win(board, player) /\ ~is_win(board, -player)) =>
                arenaOut.result \notin {1, -1}
    /\ (pc = "returned" /\ ret.result = 0) => getGameEnded(board, player) = 0

\* C20: run is left only by quit, by the closure of the connection, or by the
\* exception of a task that failed on a rejected search move: no message and
\* no other outcome of a session makes an exception leave run.
C20_RunEndsOnQuitOnly ==
    [][/\ (loop' = "crashed" /\ loop # "crashed") =>
             (task = "failed" /\ loop \in {"surrender", "stop_evaluate"})
       /\ (loop' = "closed" /\ loop # "closed") =>
             (loop = "recv" /\ (handler' = "quit" \/ RecvDisconnect))]_vars

\* C21: a create or evaluate that names a game which is not available, or whose
\* evaluator checkpoint is missing, is answered with an error response: run
\* goes on, no task is started, the Pit at hand is not replaced, and the
\* protocol state is as before.
C21_NotFoundRecoverable ==
    [][\A k \in {"create", "evaluate"} :
          \A m \in MessagesOf[k] :
             (/\ loop = "recv" /\ k \in Admitted(state) /\ ~StillRunning
              /\ m.cfg \in {"unavailable", "nockpt"}
              /\ (k = "evaluate" => m.num = IntNum(2))
              /\ Dispatch(m)) =>
                (resp' \in {"P_GAMENOTAWAILABLE", "ERROR"} /\ Untouched)]_vars

\* C22: when the undo of an undo_move is carried out, the task of the session
\* is no longer active, and while run is in the handler of undo_move no step
\* of play is taken after the history has been handed to the undo.
C22_UndoAfterTaskEnded ==
    [][(loop = "undo" /\ loop' = "recv") => task # "active"]_vars

\* C30: an undo_move whose num exceeds the length of the history fails and
\* leaves the history and the position of the play as they were; an undo_move
\* that succeeds leaves the history without its last num entries, and that
\* history stays as the undo left it until the next command arrives, so that
\* replaying the undone actions meets the history the undo produced.
C30_UndoRoundTrip ==
    [][/\ (loop = "undo" /\ loop' = "recv" /\ undoNum > Len(history)) =>
             (resp' = "P_INVALIDUNDO" /\ UNCHANGED <<history, board, player, it>>)
       /\ (loop = "undo" /\ loop' = "recv" /\ undoNum <= Len(history)) =>
             (/\ resp' = "P_UNDO"
              /\ Len(history') = Len(history) - undoNum
              /\ \A i \in 1 .. Len(history') : history'[i] = history[i])
       /\ (/\ handler = "undo_move" /\ resp = "P_UNDO" /\ loop = "recv"
           /\ handler' = handler /\ resp' = resp /\ loop' = loop) =>
             history' = history]_vars

\* C23: a play of 3x3 tic-tac-toe that is not stopped takes at most N * N
\* accepted actions, and after N * N accepted actions the game has an outcome.
C23_EndsWithinNineMoves ==
    /\ accepted <= N * N
    /\ accepted = N * N => getGameEnded(board, player) # 0

\* C27: the blunder log gets one record for every accepted action of a turn
\* without AI-move request, when play resumes from the P_VALIDMOVE send, and
\* none for an accepted action of a search-assisted turn or for a rejected
\* action. A record holds the board after the action, the ply index of the
\* turn the action was made in and the action, and the records are in strictly
\* increasing order of their ply index.
C27_BlunderLog ==
    /\ [](\A i \in 1 .. Len(blunder_history) :
            LET r == blunder_history[i]
            IN  /\ r.it + 1 <= Len(history)
                /\ r.board = getNextState(history[r.it + 1].board,
                                          history[r.it + 1].player, r.action).board
                /\ \A j \in 1 .. Len(blunder_history) : i < j => r.it < blunder_history[j].it)
    /\ [][IF pc = "send_valid" /\ pc' # pc /\ ~ai
          THEN blunder_history' =
                  Append(blunder_history, [board |-> board, player |-> player,
                                           it |-> it, action |-> action.val])
          ELSE blunder_history' = blunder_history]_vars

\* two actions were accepted, one of them in a search-assisted turn, and the
\* log holds the record of the other
C27_Witness ==
    /\ pc = "sleep_outer" /\ accepted = 2 /\ aiAsked = 1 /\ it = 2
    /\ Len(blunder_history) = 1

\* The cells of the board by their action number, and the eight lines of the
\* 3x3 board
At(b, k) == b[k \div N][k % N]
WinLines ==
    {{0, 1, 2}, {3, 4, 5}, {6, 7, 8}, {0, 3, 6}, {1, 4, 7}, {2, 5, 8},
     {0, 4, 8}, {2, 4, 6}}
HasLine(b, p) == \E l \in WinLines : \A k \in l : At(b, k) = p
Full(b) == \A k \in 0 .. N * N - 1 : At(b, k) # 0

\* C28: on every board that legal play reaches and for either player p,
\* getGameEnded(board, p) is positive when p has a completed line, negative
\* when -p has one, 0 when nobody has a line and a cell is empty, and the
\* draw value, which is neither 0 nor a win or loss value, when the board is
\* full without a line; it is 0 exactly when the game is not over, and a win
\* or loss result is the negation of the result for the other player.
C28_GameEndedValues ==
    \A p \in {1, -1} :
       LET g == getGameEnded(board, p)
           over == HasLine(board, p) \/ HasLine(board, -p) \/ Full(board)
       IN  /\ HasLine(board, p) => g > 0
           /\ HasLine(board, -p) => g < 0
           /\ (~HasLine(board, p) /\ ~HasLine(board, -p) /\ ~Full(board)) => g = 0
           /\ (~HasLine(board, p) /\ ~HasLine(board, -p) /\ Full(board)) =>
                 (g = DrawValue /\ g # 0 /\ Abs(g) < Scale)
           /\ (g = 0) <=> ~over
           /\ (HasLine(board, p) \/ HasLine(board, -p)) =>
                 getGameEnded(board, -p) = -g

\* a full board without a line
C28_Witness ==
    /\ Full(board) /\ ~HasLine(board, 1) /\ ~HasLine(board, -1)
    /\ getGameEnded(board, player) = DrawValue

\* The board with a single mark of player 1 on the centre cell
CentreBoard == [r \in Idx |-> [c \in Idx |-> IF r = 1 /\ c = 1 THEN 1 ELSE 0]]

\* C29: getNextState(empty board, 1, 4) returns the board with 1 on the centre
\* cell and every other cell empty, and player -1, and getGameEnded reports
\* that position as not ended. On every board that legal play reaches, an
\* action a < N * N on an empty cell returns a board that differs from the
\* input in cell (a div N, a mod N) only, which holds the mover's mark, the
\* returned player is the negation of the mover, and the array passed in is
\* as it was before the call.
C29_NextState ==
    /\ (board = getInitBoard /\ player = 1) =>
          LET r == getNextState(board, 1, 4)
          IN  /\ r.board = CentreBoard
              /\ r.player = -1
              /\ getGameEnded(r.board, r.player) = 0
    /\ \A a \in 0 .. N * N - 1 :
          At(board, a) = 0 =>
             LET r == getNextState(board, player, a)
             IN  /\ \A k \in 0 .. N * N - 1 :
                       At(r.board, k) = IF k = a THEN player ELSE At(board, k)
                 /\ r.player = -player
                 /\ r.arg = board

\* the position after player 1 took the centre of the empty board
C29_Witness ==
    board = CentreBoard /\ player = -1

\* The keys a join command can name
JoinKeys == LobbyKeys \cup {UnknownKey}

\* C24: a lobby join is answered with SUCCESS only if the key names a lobby
\* of the registry, the connection sits in no lobby, and the lobby has a seat
\* nobody sits on; the connection then sits in that lobby and nothing else of
\* the registry changed. In every other case the answer is ERROR and the
\* registry is as before.
C24_JoinChecks ==
    [][\A c \in Clients, key \in JoinKeys :
          LobbyJoin(c, key) =>
             LET joinable ==
                    /\ key \in DOMAIN lobbies
                    /\ \A k \in DOMAIN lobbies : \A s \in SeatPos : lobbies[k][s] # c
                    /\ \E s \in SeatPos : lobbies[key][s] = NoClient
             IN  IF joinable
                 THEN /\ lobbyResp'.code = "SUCCESS"
                      /\ DOMAIN lobbies' = DOMAIN lobbies
                      /\ \E s \in SeatPos :
                            /\ lobbies[key][s] = NoClient
                            /\ lobbies' = [lobbies EXCEPT ![key][s] = c]
                 ELSE /\ lobbyResp'.code = "ERROR"
                      /\ lobbies' = lobbies]_vars

\* a join was refused because every seat of the lobby was taken
C24_Witness ==
    /\ lobbyResp = [code |-> "ERROR", msg |-> "Failed to join lobby!"]
    /\ \E k \in DOMAIN lobbies : \A s \in SeatPos : lobbies[k][s] # NoClient

\* C25: no lobby of the registry is without members, whichever way its last
\* member left, and a lobby leaves the registry only when it has no members.
C25_EmptyLobbyRemoved ==
    /\ [](\A k \in DOMAIN lobbies : \E s \in SeatPos : lobbies[k][s] # NoClient)
    /\ [][\A k \in DOMAIN lobbies :
             k \notin DOMAIN lobbies' =>
                \A s \in SeatPos :
                   lobbies[k][s] = NoClient \/ lobbies[k][s] \notin connections']_vars

\* The cursor of a seat after a step and after an unstep from index c
AfterStep(c) == timeline(c, c + 1, Len(history)).index
AfterUnstep(c) == timeline(c, c - 1, Len(history)).index
ValidIndex(c) == c >= 0 /\ c < Len(history)

\* What timeline, step and unstep leave alone, and what step and unstep do to
\* the cursor of the seat that sent them
TimelineFrame ==
    \A k \in {"timeline", "step", "unstep"} :
       \A m \in MessagesOf[k] :
          (loop = "recv" /\ k \in Admitted(state) /\ Dispatch(m)) =>
             /\ UNCHANGED <<history, board, player, it, state>>
             /\ \A s \in Seats \ {m.pos} : Cursor(s)' = Cursor(s)
             /\ k # "timeline" =>
                   LET c == IF k = "step" THEN Cursor(m.pos) + 1
                            ELSE Cursor(m.pos) - 1
                   IN  IF ValidIndex(c)
                       THEN resp' = "P_TIMELINE" /\ Cursor(m.pos)' = c
                       ELSE /\ resp' = "P_INVALIDTIMELINE"
                            /\ Cursor(m.pos)' = Cursor(m.pos)

RECURSIVE SumVisits(_, _)
SumVisits(s, k) ==
    IF k < 0 THEN 0
    ELSE (IF <<s, k>> \in DOMAIN Nsa THEN Nsa[<<s, k>>] ELSE 0) + SumVisits(s, k - 1)

\* the visit counts of the root's actions, summed
RootVisits == SumVisits(root, N * N)

\* C32 as stated: after the numMCTSSims simulations of a call, the visit
\* counts of the root's actions sum to numMCTSSims.
C32_RootVisitsEqualBudget == searchPc = "done" => RootVisits = numMCTSSims

\* C32: the first simulation of a call finds the root absent from the tree
\* and only expands it, so after k finished simulations of a call on a root
\* that is not terminal the visit counts of the root's actions sum to k - 1,
\* and to numMCTSSims - 1 when the call is done.
C32_RootVisitsBudgetLessOne ==
    /\ searchPc \in {"idle", "done"} /\ sims >= 1 => RootVisits = sims - 1
    /\ searchPc = "done" => sims = numMCTSSims /\ RootVisits = numMCTSSims - 1

C32_Witness ==
    /\ searchPc = "done"
    /\ RootVisits = numMCTSSims - 1
    /\ \E e \in DOMAIN Nsa : e[1] = root /\ Nsa[e] = numMCTSSims - 1

\* the appends of lines 91-92 that history holds: one once the loop was left
\* with play still running
FinalAppends == IF pc = "bcast_final" THEN 1 ELSE gameOvers

\* C33: every turn of play gets one turn notification, P_KIM to all when the
\* player function of the active player is playAI and P_PLAYER to all
\* otherwise, sent with the turn's history append done, and then one board
\* broadcast; when the active player is polled, the turn with ply index it has
\* its history entry, and it + 1 notifications and it + 1 board broadcasts
\* have been sent since play started.
C33_TurnAnnouncedOnce ==
    /\ turnNotes = Len(history) - FinalAppends
    /\ boardCasts = Len(history) - (IF pc = "send_turn" THEN 1 ELSE 0)
    /\ pc = "send_turn" =>
          /\ arenaOut.to = "all"
          /\ arenaOut.code =
                (IF kinds[IF player = 1 THEN "p1" ELSE "p2"] = "playAI"
                 THEN "P_KIM" ELSE "P_PLAYER")
          /\ history[Len(history)] = [board |-> board, player |-> player, it |-> it]
    /\ pc = "sleep_inner" =>
          /\ Len(history) = it + 1
          /\ history[it + 1] = [board |-> board, player |-> player, it |-> it]
          /\ turnNotes = it + 1
          /\ boardCasts = it + 1

\* the AI's first turn is polled: its P_KIM and its board were sent
C33_Witness ==
    /\ pc = "sleep_inner" /\ it = 1 /\ action = NoAction
    /\ arenaOut.code = "P_KIM"
    /\ turnNotes = 2 /\ boardCasts = 2

\* C34: when run leaves the wait of the surrender handler, the session task
\* has finished and the handler answers: P_SURRENDER with the opponent of the
\* surrendering seat as result (-1 for p1, 1 for p2), and the state is
\* FINISHED; after a P_SURRENDER no action is applied to the board; and a
\* P_SURRENDER that follows the P_GAMEOVER of the game carries that game's
\* result.
C34_SurrenderNamesOpponent ==
    /\ [](resp = "P_SURRENDER" /\ arenaOut.code = "P_GAMEOVER"
             => winner = arenaOut.result)
    /\ [][/\ (loop = "surrender" /\ loop' # "surrender") =>
                /\ task = "done"
                /\ loop' = "recv"
                /\ resp' = "P_SURRENDER"
                /\ winner' = (IF seat = "p1" THEN -1 ELSE 1)
                /\ state' = "FINISHED"
          /\ (resp = "P_SURRENDER" /\ resp' = "P_SURRENDER") => board' = board]_vars

\* C35: start_game called while the task is not done terminates: its wait
\* loop is left, and then the previous task is done and the new one runs.
C35_StartGameTerminates ==
    (loop = "start_game_loop") ~> (loop = "recv" /\ task = "active" /\ pc = "start")

\* C36: every action play applies is one that getValidMoves flags for the
\* board and the player of the turn; the pass action N * N is not applied
\* while a cell is empty.
C36_AppliedActionsValid ==
    [][accepted' = accepted + 1 =>
          /\ action'.val \in getValidMoves(board, player)
          /\ (action'.val = N * N => ~has_legal_moves(board))]_vars

\* the accepted actions of finished turns that the blunder log does not hold
UnloggedTurns ==
    (accepted - (IF pc = "send_valid" THEN 1 ELSE 0)) - Len(blunder_history)

\* 1 when the turn that is being polled counts as search-assisted
AssistedNow ==
    IF ai /\ pc \in {"sleep_inner", "send_valid", "send_invalid", "raised"}
    THEN 1 ELSE 0

\* C37: the search-assisted flag is per turn. The turns treated as
\* search-assisted (the finished ones whose action is missing in the blunder
\* log and the one being polled with the flag set, whose rejected action is
\* fatal) are never more than the AI-move requests made; the flag is clear when
\* the first poll of a turn is due, it is set only by play resuming from an
\* AI-move request, and play raises only with the flag set.
C37_AssistedPerTurn ==
    /\ [](UnloggedTurns + AssistedNow <= aiAsked)
    /\ [][/\ (pc = "bcast" /\ pc' # pc) => ~ai'
          /\ (~ai /\ ai') => (pc = "send_ai" /\ it' = it)
          /\ (pc # "raised" /\ pc' = "raised") => ai]_vars

\* after a turn with an AI-move request, whose action is not in the log, a
\* rejected action of a later turn is answered as invalid and not fatal
C37_Witness ==
    /\ pc = "send_invalid" /\ ~ai /\ aiAsked = 1
    /\ accepted = 2 /\ Len(blunder_history) = 1

\* the seats connection c occupies, over all lobbies
SeatsOf(L, c) == {ks \in (DOMAIN L) \X SeatPos : L[ks[1]][ks[2]] = c}

C39_StartUsesLobbyKey ==
    [][lobbyResp' = [code |-> "SUCCESS", msg |-> "Lobby starting!"]
         /\ (launched' # launched \/ lobbyResp' # lobbyResp)
       => \E c \in connections :
             /\ client_in_lobby(lobbies, c)
             /\ launched' \in lobby_of_client(lobbies, c)]_vars

\* C40: when quit has been processed and the command loop is closed, no
\* session task is running: quit is processed only with no task or with a
\* task that is done.
C40_QuitLeavesNoTask ==
    (loop = "closed" /\ handler = "quit" /\ resp = "P_QUIT") => task # "active"

=============================================================================
